---- MODULE Spec2Model ----
(***************************************************************************)
(* The scouter pipeline orchestrator (POST /api/pipeline): one run of the  *)
(* background async function that parses the resume, searches jobs,        *)
(* analyses fit in batches, generates cover letters and streams typed      *)
(* events.  `events` is the sequence of sendEvent calls the orchestrator   *)
(* makes on its pipeline stream, in order.                                 *)
(*                                                                         *)
(* RetrySpec is one call of withRetry (retry with exponential backoff)    *)
(* on its own: the operation may return or throw at every invocation.    *)
(*                                                                         *)
(* Strings that the code normalises (company, title) are sequences of      *)
(* one-character strings, so that toLowerCase, trim and the dedup key's    *)
(* concatenation are computed, not assumed.                                *)
(***************************************************************************)
EXTENDS Integers, Sequences, FiniteSets, TLC

VARIABLES
    pc,                  \* position of the orchestrator's async function
    hbStarted,           \* pipeline.startHeartbeat() has been called
    closeCount,          \* number of pipeline.close() calls
    events,              \* sendEvent calls made so far, in order
    thrown,              \* the exception on its way to the top-level catch
    options,             \* the options object of the parsed request config
    minFitScore,         \* options?.minFitScore ?? 60
    generateCoverLetters, \* options?.generateCoverLetters ?? true
    hasSearchConfig,     \* the parsed config carries a searchConfig object
    pendingRoles,        \* target roles searchJobs has not gone through yet
    allJobs,             \* searchJobs: listings aggregated so far
    jobs,                \* searchResult.jobs
    i,                   \* the loop index of the loop in progress
    batchResults,        \* the current batch's Promise.all slots
    k,                   \* index into batchResults while its events are sent
    analyses,            \* analyses pushed so far
    highFitJobs,         \* jobs whose analysis passed the threshold
    coverLetters,        \* cover letters pushed so far
    request,             \* what the form data of the request carries
    calls,               \* kinds of awaited outside calls made so far
    abortedAt,           \* request.signal: Len(events) when it fired
    failedJobs,          \* ids of the jobs whose analysis came back null
    roleResults,         \* searchJobs: what each role's search gave
    retryPc,             \* position of one withRetry call
    opts,                \* withRetry: the merged RetryConfig
    attempt,             \* withRetry: the loop variable
    lastError,           \* withRetry: the error caught last
    invocations,         \* number of operation() calls withRetry made
    onRetry,             \* observer.onRetry calls, in order
    onSuccess,           \* observer.onSuccess calls, in order
    onExhausted,         \* observer.onExhausted calls, in order
    outcome,             \* what withRetry returned or threw
    abortedAfter,        \* invocations begun when the signal fired
    cpPhase,             \* calculateProgress: the phase argument
    cpSubProgress,       \* calculateProgress: the subProgress argument
    cpResult,            \* calculateProgress: the value returned
    clientPc,            \* position of one start() call of the client hook
    frames,              \* the event frames the response body carries
    body,                \* the characters of the response body
    pos,                 \* characters of the body read so far
    buffer,              \* start: the incomplete line kept between reads
    currentEvent,        \* start: the label of the last event: line
    session,             \* the search context's session state
    handled,             \* the messages handed to handleMessage, in order
    isRunningRef,        \* isRunningRef.current
    abortControllerRef,  \* abortControllerRef.current is set
    aborted,             \* the controller's signal has been aborted
    wrapInput,           \* the value first given to wrapError
    wrapArgs,            \* phase and defaultCode of each wrapError call
    wrapped,             \* what each wrapError call returned, in order
    parsedConfig,        \* JSON.parse(configJson) of one request
    overallScore,        \* analysis.overallScore of one analysis
    qualified            \* the outcome of the qualification test

(* The variables of one withRetry call *)
retryVars == <<retryPc, opts, attempt, lastError, invocations, onRetry,
               onSuccess, onExhausted, outcome, abortedAfter>>

(* The variables of the orchestrator *)
orchestratorVars ==
    <<pc, hbStarted, closeCount, events, thrown, options, minFitScore,
      generateCoverLetters, hasSearchConfig, pendingRoles, allJobs, jobs, i,
      batchResults, k, analyses, highFitJobs, coverLetters, request, calls,
      abortedAt, failedJobs, roleResults>>

(* The variables of one calculateProgress call *)
progressVars == <<cpPhase, cpSubProgress, cpResult>>

(* The variables of one start() call of the client hook *)
clientVars ==
    <<clientPc, frames, body, pos, buffer, currentEvent, session, handled,
      isRunningRef, abortControllerRef, aborted>>

(* The variables of successive wrapError calls on one thrown value *)
wrapVars == <<wrapInput, wrapArgs, wrapped>>

(* The variables of one qualification test *)
qualifyVars == <<parsedConfig, overallScore, qualified>>

outsideOrchestrator ==
    <<retryVars, progressVars, clientVars, wrapVars, qualifyVars>>
outsideRetry ==
    <<orchestratorVars, progressVars, clientVars, wrapVars, qualifyVars>>
outsideProgress ==
    <<orchestratorVars, retryVars, clientVars, wrapVars, qualifyVars>>
outsideClient ==
    <<orchestratorVars, retryVars, progressVars, wrapVars, qualifyVars>>
outsideWrap ==
    <<orchestratorVars, retryVars, progressVars, clientVars, qualifyVars>>
outsideQualify ==
    <<orchestratorVars, retryVars, progressVars, clientVars, wrapVars>>

vars == <<orchestratorVars, retryVars, progressVars, clientVars, wrapVars,
          qualifyVars>>

----------------------------------------------------------------------------
(* Bounds of the model *)

MaxRoles == 2        \* target roles in one request
MaxPerRole == 2      \* listings one provider response carries
MaxListings == 4     \* listings the provider returns over one run
RandomSteps == 3     \* Math.random() returns a multiple of 1/RandomSteps

(* Program constants *)

batchSize == 3
DefaultMinFitScore == 60
HighFitScore == 80
MediumFitScore == 60

(* An absent optional value is the empty sequence, a given one <<value>> *)
NoValue == <<>>
Given(value) == <<value>>

(* A Promise.all slot: not settled yet, or settled with null *)
Pending == [settled |-> FALSE]
Null == [settled |-> TRUE]

----------------------------------------------------------------------------
(* String helpers: String.prototype.toLowerCase and trim *)

LowerCaseOf ==
    "A" :> "a" @@ "B" :> "b" @@ "C" :> "c" @@ "D" :> "d" @@
    "E" :> "e" @@ "F" :> "f" @@ "G" :> "g" @@ "H" :> "h" @@
    "I" :> "i" @@ "J" :> "j" @@ "K" :> "k" @@ "L" :> "l" @@
    "M" :> "m" @@ "N" :> "n" @@ "O" :> "o" @@ "P" :> "p" @@
    "Q" :> "q" @@ "R" :> "r" @@ "S" :> "s" @@ "T" :> "t" @@
    "U" :> "u" @@ "V" :> "v" @@ "W" :> "w" @@ "X" :> "x" @@
    "Y" :> "y" @@ "Z" :> "z"

toLowerCaseChar(c) == IF c \in DOMAIN LowerCaseOf THEN LowerCaseOf[c] ELSE c

toLowerCase(s) == [n \in 1..Len(s) |-> toLowerCaseChar(s[n])]

(* The white space String.prototype.trim strips (the part that occurs) *)
WhiteSpace == {" ", "\t", "\n", "\r"}

RECURSIVE trimStart(_)
trimStart(s) ==
    IF s # <<>> /\ Head(s) \in WhiteSpace THEN trimStart(Tail(s)) ELSE s

RECURSIVE trimEnd(_)
trimEnd(s) ==
    IF s # <<>> /\ s[Len(s)] \in WhiteSpace
    THEN trimEnd(SubSeq(s, 1, Len(s) - 1))
    ELSE s

trim(s) == trimEnd(trimStart(s))

(* Math.round(num / den * 100) for non-negative num and positive den *)
RoundPercent(num, den) == (200 * num + den) \div (2 * den)

Min(a, b) == IF a <= b THEN a ELSE b

(* String.prototype.includes *)
includes(s, pattern) ==
    \E n \in 0..(Len(s) - Len(pattern)) :
        \A m \in 1..Len(pattern) : s[n + m] = pattern[m]

----------------------------------------------------------------------------
(* The provider's listings.  company and title are character sequences;   *)
(* applicationUrl is the site the apply link points to.  Listings 1-3     *)
(* share one dedup key ("a-b-c"), listings 2 and 3 differ in case only.   *)

Catalogue == <<
    [id |-> 1, company |-> <<"a", "-", "b">>, title |-> <<"c">>,
     applicationUrl |-> "board"],
    [id |-> 2, company |-> <<"a">>, title |-> <<"b", "-", "c">>,
     applicationUrl |-> "board"],
    [id |-> 3, company |-> <<"A">>, title |-> <<"b", "-", "c">>,
     applicationUrl |-> "board"],
    [id |-> 4, company |-> <<"b">>, title |-> <<"c">>,
     applicationUrl |-> "board"],
    [id |-> 5, company |-> <<"c">>, title |-> <<"d">>,
     applicationUrl |-> "board"],
    [id |-> 6, company |-> <<"d">>, title |-> <<"D", " ">>,
     applicationUrl |-> "spam"] >>

(* What one fetchJobs call can return when at most `room` listings remain: *)
(* a run of consecutive catalogue entries, possibly empty                  *)
ProviderResponses(room) ==
    { SubSeq(Catalogue, w[1], w[2]) :
        w \in { v \in (1..Len(Catalogue)) \X (0..Len(Catalogue)) :
                  /\ v[2] - v[1] + 1 >= 0
                  /\ v[2] - v[1] + 1 <= Min(MaxPerRole, room) } }

(* process.env.IGNORED_JOB_SITES, as getIgnoredSites() reads it *)
IgnoredSiteSettings == { {}, {"spam"} }

(* overallScore values the model returns; options a request can carry *)
Scores == {40, 65, 90}
MinFitScoreOptions == {NoValue, Given(70)}
GenerateCoverLettersOptions == {NoValue, Given(FALSE)}

----------------------------------------------------------------------------
(* src/lib/jobs/jsearch.ts *)

filterIgnoredSites(js, ignoredSites) ==
    IF ignoredSites = {} THEN js
    ELSE SelectSeq(js, LAMBDA job : job.applicationUrl \notin ignoredSites)

dedupKey(job) ==
    trim(toLowerCase(job.company)) \o <<"-">> \o trim(toLowerCase(job.title))

RECURSIVE dedupFilter(_, _, _)
dedupFilter(js, seen, kept) ==
    IF js = <<>> THEN kept
    ELSE IF dedupKey(Head(js)) \in seen
         THEN dedupFilter(Tail(js), seen, kept)
         ELSE dedupFilter(Tail(js), seen \cup {dedupKey(Head(js))},
                          Append(kept, Head(js)))

deduplicateJobs(js) == dedupFilter(js, {}, <<>>)

----------------------------------------------------------------------------
(* src/hooks/use-pipeline-sse.ts: the error taxonomy *)

(* A thrown value that is no ScouterError *)
UntypedError ==
    [typed |-> FALSE, name |-> "Error", code |-> "", recoverable |-> FALSE,
     phase |-> ""]

(* What JSON.parse throws on text that is not JSON *)
SyntaxError ==
    [typed |-> FALSE, name |-> "SyntaxError", code |-> "",
     recoverable |-> FALSE, phase |-> ""]

(* new ScouterError(message, code, recoverable, phase) *)
ScouterError(code, recoverable, phase) ==
    [typed |-> TRUE, name |-> "ScouterError", code |-> code,
     recoverable |-> recoverable, phase |-> phase]

(* Faulty variant: a typed error is wrapped anew like any other value *)
wrapError_AlwaysWraps(error, phase, defaultCode) ==
    ScouterError(IF defaultCode = NoValue THEN "UNKNOWN" ELSE defaultCode[1],
                 FALSE, phase)

(* wrapError(error, phase, defaultCode = 'UNKNOWN'): defaultCode is NoValue
   when the argument is omitted *)
wrapError(error, phase, defaultCode) ==
    IF error.typed
    THEN error
    ELSE ScouterError(IF defaultCode = NoValue
                      THEN "UNKNOWN" ELSE defaultCode[1],
                      FALSE, phase)

(* No wrapError call is looked at *)
WrapIdle ==
    /\ wrapInput = UntypedError
    /\ wrapArgs = <<>>
    /\ wrapped = <<>>

(* No qualification test is looked at *)
QualifyIdle ==
    /\ parsedConfig = [searchConfig |-> [minFitScore |-> NoValue],
                       options |-> NoValue]
    /\ overallScore = 0
    /\ qualified = NoValue

(* The typed errors extractTextFromPDF throws *)
PDFParseErrors ==
    { [code |-> "INVALID_PDF", recoverable |-> FALSE],
      [code |-> "EMPTY_CONTENT", recoverable |-> TRUE],
      [code |-> "PARSE_FAILED", recoverable |-> FALSE] }

----------------------------------------------------------------------------
(* src/hooks/use-pipeline-sse.ts: retry with exponential backoff.  Codes,  *)
(* statuses, messages and patterns are character sequences.  A backoff    *)
(* multiplier is the fraction <<numerator, denominator>>.                  *)

DefaultRetryablePatterns ==
    <<<<"T", "I", "M", "E", "O", "U", "T">>,
      <<"R", "A", "T", "E", "_", "L", "I", "M", "I", "T", "E", "D">>,
      <<"4", "2", "9">>,
      <<"5", "0", "3">>,
      <<"5", "0", "2">>,
      <<"5", "0", "0">>,
      <<"E", "C", "O", "N", "N", "R", "E", "S", "E", "T">>,
      <<"E", "T", "I", "M", "E", "D", "O", "U", "T">>,
      <<"E", "N", "O", "T", "F", "O", "U", "N", "D">>,
      <<"f", "e", "t", "c", "h", " ", "f", "a", "i", "l", "e", "d">>>>

DEFAULT_RETRY_CONFIG ==
    [maxRetries |-> 3, baseDelay |-> 1000, maxDelay |-> 10000,
     backoffMultiplier |-> <<2, 1>>, jitter |-> TRUE,
     retryablePatterns |-> DefaultRetryablePatterns]

(* Faulty variant: rateLimited keeps the default patterns *)
RetryPresets_NotNarrowed ==
    [fast |-> [maxRetries |-> 2, baseDelay |-> 500, maxDelay |-> 2000,
               backoffMultiplier |-> <<3, 2>>],
     standard |-> [maxRetries |-> 3, baseDelay |-> 1000, maxDelay |-> 10000,
                   backoffMultiplier |-> <<2, 1>>],
     aggressive |-> [maxRetries |-> 5, baseDelay |-> 2000,
                     maxDelay |-> 30000, backoffMultiplier |-> <<2, 1>>],
     rateLimited |->
         [maxRetries |-> 3, baseDelay |-> 5000, maxDelay |-> 60000,
          backoffMultiplier |-> <<2, 1>>]]

(* RetryPresets.fast .. RetryPresets.rateLimited *)
RetryPresets ==
    [fast |-> [maxRetries |-> 2, baseDelay |-> 500, maxDelay |-> 2000,
               backoffMultiplier |-> <<3, 2>>],
     standard |-> [maxRetries |-> 3, baseDelay |-> 1000, maxDelay |-> 10000,
                   backoffMultiplier |-> <<2, 1>>],
     aggressive |-> [maxRetries |-> 5, baseDelay |-> 2000,
                     maxDelay |-> 30000, backoffMultiplier |-> <<2, 1>>],
     rateLimited |->
         [maxRetries |-> 3, baseDelay |-> 5000, maxDelay |-> 60000,
          backoffMultiplier |-> <<2, 1>>,
          retryablePatterns |->
              <<<<"4", "2", "9">>,
                <<"R", "A", "T", "E", "_", "L", "I", "M", "I", "T", "E", "D">>,
                <<"r", "a", "t", "e", " ", "l", "i", "m", "i", "t">>>>]]

(* { ...DEFAULT_RETRY_CONFIG, ...config } *)
mergeConfig(config) ==
    [field \in DOMAIN DEFAULT_RETRY_CONFIG |->
        IF field \in DOMAIN config THEN config[field]
        ELSE DEFAULT_RETRY_CONFIG[field]]

(* The config arguments withRetry is called with: a preset, as it is or *)
(* with jitter switched off                                             *)
RetryConfigs ==
    { RetryPresets[preset] : preset \in DOMAIN RetryPresets } \cup
    { [field \in DOMAIN RetryPresets[preset] \cup {"jitter"} |->
          IF field = "jitter" THEN FALSE ELSE RetryPresets[preset][field]] :
        preset \in DOMAIN RetryPresets }

(* Errors an operation can throw.  class is "ScouterError" for the typed *)
(* errors, "Error" for any other Error; status is String(err.status ||  *)
(* err.statusCode || '').                                                *)
RateLimitExceeded ==
    [class |-> "ScouterError", code |-> <<"R", "A", "T", "E", "_", "L", "I", "M", "I", "T", "E", "D">>,
     status |-> <<>>,
     message |-> <<"J", "S", "e", "a", "r", "c", "h", " ", "A", "P", "I",
                   " ", "r", "a", "t", "e", " ", "l", "i", "m", "i", "t",
                   " ", "e", "x", "c", "e", "e", "d", "e", "d">>]

ServiceUnavailable ==
    [class |-> "Error", code |-> <<>>, status |-> <<"5", "0", "3">>,
     message |-> <<"S", "e", "r", "v", "i", "c", "e", " ", "U", "n", "a",
                   "v", "a", "i", "l", "a", "b", "l", "e">>]

AuthenticationFailed ==
    [class |-> "ScouterError", code |-> <<"S", "E", "A", "R", "C", "H", "_", "F", "A", "I", "L", "E", "D">>,
     status |-> <<>>,
     message |-> <<"J", "S", "e", "a", "r", "c", "h", " ", "A", "P", "I",
                   " ", "a", "u", "t", "h", "e", "n", "t", "i", "c", "a",
                   "t", "i", "o", "n", " ", "f", "a", "i", "l", "e", "d">>]

(* An Error of another library whose code is spelt in lower case *)
RateLimitedLowerCase ==
    [class |-> "Error",
     code |-> <<"r", "a", "t", "e", "_", "l", "i", "m", "i", "t", "e", "d">>,
     status |-> <<>>,
     message |-> <<"s", "l", "o", "w", " ", "d", "o", "w", "n">>]

OperationErrors ==
    {RateLimitExceeded, ServiceUnavailable, AuthenticationFailed,
     RateLimitedLowerCase}

extractErrorInfo(error) ==
    IF error.class = "ScouterError"
    THEN [code |-> error.code, status |-> <<>>, message |-> error.message]
    ELSE [code |-> error.code, status |-> error.status,
          message |-> error.message]

isRetryable(error, patterns) ==
    LET errorInfo == extractErrorInfo(error)
        message == toLowerCase(errorInfo.message)
    IN  \E n \in 1..Len(patterns) :
            \/ includes(errorInfo.code, patterns[n])
            \/ includes(errorInfo.status, patterns[n])
            \/ includes(message, toLowerCase(patterns[n]))

RECURSIVE pow(_, _)
pow(base, exponent) ==
    IF exponent = 0 THEN 1 ELSE base * pow(base, exponent - 1)

(* Math.random() is random / RandomSteps for random in 0..RandomSteps-1. *)
(* delay = baseDelay * multiplier^attempt, capped at maxDelay, times     *)
(* (0.5 + Math.random()) when jitter is on, then Math.floor.             *)
calculateDelay(attemptIndex, config, random) ==
    LET num == config.baseDelay * pow(config.backoffMultiplier[1],
                                      attemptIndex)
        den == pow(config.backoffMultiplier[2], attemptIndex)
        capped == IF num <= config.maxDelay * den
                  THEN <<num, den>> ELSE <<config.maxDelay, 1>>
    IN  IF config.jitter
        THEN (capped[1] * (RandomSteps + 2 * random))
                 \div (capped[2] * 2 * RandomSteps)
        ELSE capped[1] \div capped[2]

(* No withRetry call is in progress *)
RetryIdle ==
    /\ retryPc = "idle"
    /\ opts = DEFAULT_RETRY_CONFIG
    /\ attempt = 0
    /\ lastError = NoValue
    /\ invocations = 0
    /\ onRetry = <<>>
    /\ onSuccess = <<>>
    /\ onExhausted = <<>>
    /\ outcome = NoValue
    /\ abortedAfter = NoValue

----------------------------------------------------------------------------
(* The events of the stream *)

PhaseEvent(phase, progress) ==
    [type |-> "phase", phase |-> phase, progress |-> progress]
ProfileEvent == [type |-> "profile"]
JobEvent(job) == [type |-> "job", job |-> job]
AnalysisEvent(analysis) == [type |-> "analysis", analysis |-> analysis]
CoverLetterEvent(letter) == [type |-> "coverLetter", jobId |-> letter.jobId]
CompleteEvent(summary) == [type |-> "complete", summary |-> summary]
ErrorEvent(code, phase, recoverable) ==
    [type |-> "error", code |-> code, phase |-> phase,
     recoverable |-> recoverable]

sendEvent(event) == events' = Append(events, event)

----------------------------------------------------------------------------
(* src/app/api/analyze-fit/route.ts: POST, the pipeline orchestrator *)

(* No calculateProgress call is looked at *)
ProgressIdle ==
    /\ cpPhase = "idle"
    /\ cpSubProgress = 0
    /\ cpResult = NoValue

(* createInitialSession(), without the id and the time stamps *)
createInitialSession ==
    [userProfile |-> NoValue, jobs |-> <<>>, analyses |-> {},
     coverLetters |-> {}, status |-> Given("idle"), progress |-> Given(0),
     error |-> NoValue]

(* The client hook is mounted and start() has not been called *)
ClientIdle ==
    /\ clientPc = "idle"
    /\ frames = <<>>
    /\ body = <<>>
    /\ pos = 0
    /\ buffer = <<>>
    /\ currentEvent = <<>>
    /\ session = createInitialSession
    /\ handled = <<>>
    /\ isRunningRef = FALSE
    /\ abortControllerRef = FALSE
    /\ aborted = FALSE

(* The orchestrator has not started *)
OrchestratorIdle ==
    /\ pc = "start"
    /\ hbStarted = FALSE
    /\ closeCount = 0
    /\ events = <<>>
    /\ thrown = NoValue
    /\ options = [minFitScore |-> NoValue, generateCoverLetters |-> NoValue]
    /\ minFitScore = DefaultMinFitScore
    /\ generateCoverLetters = TRUE
    /\ hasSearchConfig = FALSE
    /\ pendingRoles = 0
    /\ allJobs = <<>>
    /\ jobs = <<>>
    /\ i = 0
    /\ batchResults = <<>>
    /\ k = 0
    /\ analyses = <<>>
    /\ highFitJobs = <<>>
    /\ coverLetters = <<>>
    /\ request = NoValue
    /\ calls = {}
    /\ abortedAt = NoValue
    /\ failedJobs = {}
    /\ roleResults = <<>>

Init ==
    /\ OrchestratorIdle
    /\ RetryIdle
    /\ ProgressIdle
    /\ ClientIdle
    /\ WrapIdle
    /\ QualifyIdle

(* An exception leaves the try block for the top-level catch *)
Throw(error) ==
    /\ thrown' = Given(error)
    /\ pc' = "catch"

(* Faulty variant: the heartbeat is not started *)
StartHeartbeat_NotStarted ==
    /\ pc = "start"
    /\ pc' = "formData"
    /\ UNCHANGED <<request, calls, abortedAt, failedJobs, roleResults>>
    /\ UNCHANGED outsideOrchestrator
    /\ UNCHANGED <<hbStarted, closeCount, events, thrown, options,
                   minFitScore, generateCoverLetters, hasSearchConfig,
                   pendingRoles, allJobs, jobs, i, batchResults, k, analyses,
                   highFitJobs, coverLetters>>

(* pipeline.startHeartbeat() *)
StartHeartbeat ==
    /\ pc = "start"
    /\ hbStarted' = TRUE
    /\ pc' = "formData"
    /\ UNCHANGED <<request, calls, abortedAt, failedJobs, roleResults>>
    /\ UNCHANGED outsideOrchestrator
    /\ UNCHANGED <<closeCount, events, thrown, options, minFitScore,
                   generateCoverLetters, hasSearchConfig, pendingRoles,
                   allJobs, jobs, i, batchResults, k, analyses, highFitJobs,
                   coverLetters>>

(* await request.formData(), the presence test and JSON.parse(configJson) *)
ReadFormData ==
    /\ pc = "formData"
    /\ calls' = calls \cup {"formData"}
    /\ \/ /\ Throw(UntypedError)            \* formData() or JSON.parse throws
          /\ UNCHANGED <<options, minFitScore, generateCoverLetters,
                         hasSearchConfig, pendingRoles, request>>
       \/ \E resumeGiven \in BOOLEAN, configGiven \in BOOLEAN :
            /\ ~resumeGiven \/ ~configGiven  \* !resumeFile || !configJson
            /\ request' = Given([resumeFile |-> resumeGiven,
                                 configJson |-> configGiven,
                                 targetRoles |-> 0])
            /\ pc' = "sendValidationError"
            /\ UNCHANGED <<thrown, options, minFitScore,
                           generateCoverLetters, hasSearchConfig,
                           pendingRoles>>
       \/ \E optMinFitScore \in MinFitScoreOptions,
             optGenerate \in GenerateCoverLettersOptions,
             searchConfigGiven \in BOOLEAN,
             targetRoles \in 0..MaxRoles :
            /\ searchConfigGiven \/ targetRoles = 0
            /\ request' = Given([resumeFile |-> TRUE, configJson |-> TRUE,
                                 targetRoles |-> targetRoles])
            /\ options' = [minFitScore |-> optMinFitScore,
                           generateCoverLetters |-> optGenerate]
            /\ minFitScore' = IF optMinFitScore = NoValue
                              THEN DefaultMinFitScore ELSE optMinFitScore[1]
            /\ generateCoverLetters' = IF optGenerate = NoValue
                                       THEN TRUE ELSE optGenerate[1]
            /\ hasSearchConfig' = searchConfigGiven
            /\ pendingRoles' = targetRoles
            /\ pc' = "sendParsing0"
            /\ UNCHANGED thrown
    /\ UNCHANGED <<abortedAt, failedJobs, roleResults>>
    /\ UNCHANGED outsideOrchestrator
    /\ UNCHANGED <<hbStarted, closeCount, events, allJobs, jobs, i,
                   batchResults, k, analyses, highFitJobs, coverLetters>>

(* Faulty variant: the return after the validation error is missing *)
SendValidationError_NoReturn ==
    /\ pc = "sendValidationError"
    /\ sendEvent(ErrorEvent("VALIDATION_FAILED", "idle", FALSE))
    /\ pc' = "sendParsing0"
    /\ UNCHANGED <<request, calls, abortedAt, failedJobs, roleResults>>
    /\ UNCHANGED outsideOrchestrator
    /\ UNCHANGED <<hbStarted, closeCount, thrown, options, minFitScore,
                   generateCoverLetters, hasSearchConfig, pendingRoles,
                   allJobs, jobs, i, batchResults, k, analyses, highFitJobs,
                   coverLetters>>

(* The validation exit: sendError VALIDATION_FAILED, then close *)
SendValidationError ==
    /\ pc = "sendValidationError"
    /\ sendEvent(ErrorEvent("VALIDATION_FAILED", "idle", FALSE))
    /\ pc' = "close"
    /\ UNCHANGED <<request, calls, abortedAt, failedJobs, roleResults>>
    /\ UNCHANGED outsideOrchestrator
    /\ UNCHANGED <<hbStarted, closeCount, thrown, options, minFitScore,
                   generateCoverLetters, hasSearchConfig, pendingRoles,
                   allJobs, jobs, i, batchResults, k, analyses, highFitJobs,
                   coverLetters>>

(* sendPhase('parsing', 0) *)
SendParsingStart ==
    /\ pc = "sendParsing0"
    /\ sendEvent(PhaseEvent("parsing", 0))
    /\ pc' = "extractText"
    /\ UNCHANGED <<request, calls, abortedAt, failedJobs, roleResults>>
    /\ UNCHANGED outsideOrchestrator
    /\ UNCHANGED <<hbStarted, closeCount, thrown, options, minFitScore,
                   generateCoverLetters, hasSearchConfig, pendingRoles,
                   allJobs, jobs, i, batchResults, k, analyses, highFitJobs,
                   coverLetters>>

(* extractTextFromPDF(buffer) for a PDF, resumeFile.text() otherwise *)
ExtractText ==
    /\ pc = "extractText"
    /\ \/ /\ pc' = "sendParsing50"
          /\ UNCHANGED thrown
       \/ \E error \in PDFParseErrors :      \* isPDFParseError(error)
            /\ thrown' = Given(error)
            /\ pc' = "sendPDFError"
       \/ Throw(UntypedError)                \* arrayBuffer() or text() throws
    /\ calls' = calls \cup {"extractText"}
    /\ UNCHANGED request
    /\ UNCHANGED <<abortedAt, failedJobs, roleResults>>
    /\ UNCHANGED outsideOrchestrator
    /\ UNCHANGED <<hbStarted, closeCount, events, options, minFitScore,
                   generateCoverLetters, hasSearchConfig, pendingRoles,
                   allJobs, jobs, i, batchResults, k, analyses, highFitJobs,
                   coverLetters>>

(* Faulty variant: the error is sent but the function does not return *)
SendPDFError_NoReturn ==
    /\ pc = "sendPDFError"
    /\ sendEvent(ErrorEvent(thrown[1].code, "parsing", thrown[1].recoverable))
    /\ pc' = "sendParsing50"
    /\ UNCHANGED <<request, calls, abortedAt, failedJobs, roleResults>>
    /\ UNCHANGED outsideOrchestrator
    /\ UNCHANGED <<hbStarted, closeCount, thrown, options, minFitScore,
                   generateCoverLetters, hasSearchConfig, pendingRoles,
                   allJobs, jobs, i, batchResults, k, analyses, highFitJobs,
                   coverLetters>>

(* The catch of the extraction: sendError with the extractor's code and
   flag, then close and return *)
SendPDFError ==
    /\ pc = "sendPDFError"
    /\ sendEvent(ErrorEvent(thrown[1].code, "parsing", thrown[1].recoverable))
    /\ pc' = "close"
    /\ UNCHANGED <<request, calls, abortedAt, failedJobs, roleResults>>
    /\ UNCHANGED outsideOrchestrator
    /\ UNCHANGED <<hbStarted, closeCount, thrown, options, minFitScore,
                   generateCoverLetters, hasSearchConfig, pendingRoles,
                   allJobs, jobs, i, batchResults, k, analyses, highFitJobs,
                   coverLetters>>

(* sendPhase('parsing', 50) *)
SendParsingHalf ==
    /\ pc = "sendParsing50"
    /\ sendEvent(PhaseEvent("parsing", 50))
    /\ pc' = "parseResume"
    /\ UNCHANGED <<request, calls, abortedAt, failedJobs, roleResults>>
    /\ UNCHANGED outsideOrchestrator
    /\ UNCHANGED <<hbStarted, closeCount, thrown, options, minFitScore,
                   generateCoverLetters, hasSearchConfig, pendingRoles,
                   allJobs, jobs, i, batchResults, k, analyses, highFitJobs,
                   coverLetters>>

(* withRetry(generateText, standard) and JSON.parse(profileJson) *)
ParseResume ==
    /\ pc = "parseResume"
    /\ \/ /\ pc' = "sendProfile"
          /\ UNCHANGED thrown
       \/ Throw(UntypedError)     \* withRetry gave up on generateText
       \/ Throw(SyntaxError)      \* JSON.parse(profileJson): no valid JSON
    /\ calls' = calls \cup {"generateText"}
    /\ UNCHANGED request
    /\ UNCHANGED <<abortedAt, failedJobs, roleResults>>
    /\ UNCHANGED outsideOrchestrator
    /\ UNCHANGED <<hbStarted, closeCount, events, options, minFitScore,
                   generateCoverLetters, hasSearchConfig, pendingRoles,
                   allJobs, jobs, i, batchResults, k, analyses, highFitJobs,
                   coverLetters>>

SendProfile ==
    /\ pc = "sendProfile"
    /\ sendEvent(ProfileEvent)
    /\ pc' = "sendParsing100"
    /\ UNCHANGED <<request, calls, abortedAt, failedJobs, roleResults>>
    /\ UNCHANGED outsideOrchestrator
    /\ UNCHANGED <<hbStarted, closeCount, thrown, options, minFitScore,
                   generateCoverLetters, hasSearchConfig, pendingRoles,
                   allJobs, jobs, i, batchResults, k, analyses, highFitJobs,
                   coverLetters>>

(* sendPhase('parsing', 100) *)
SendParsingDone ==
    /\ pc = "sendParsing100"
    /\ sendEvent(PhaseEvent("parsing", 100))
    /\ pc' = "sendSearching0"
    /\ UNCHANGED <<request, calls, abortedAt, failedJobs, roleResults>>
    /\ UNCHANGED outsideOrchestrator
    /\ UNCHANGED <<hbStarted, closeCount, thrown, options, minFitScore,
                   generateCoverLetters, hasSearchConfig, pendingRoles,
                   allJobs, jobs, i, batchResults, k, analyses, highFitJobs,
                   coverLetters>>

(* sendPhase('searching', 0), then searchJobs(searchConfig) is entered *)
SendSearchingStart ==
    /\ pc = "sendSearching0"
    /\ sendEvent(PhaseEvent("searching", 0))
    /\ pc' = "searchJobs"
    /\ allJobs' = <<>>
    /\ UNCHANGED <<request, calls, abortedAt, failedJobs, roleResults>>
    /\ UNCHANGED outsideOrchestrator
    /\ UNCHANGED <<hbStarted, closeCount, thrown, options, minFitScore,
                   generateCoverLetters, hasSearchConfig, pendingRoles,
                   jobs, i, batchResults, k, analyses, highFitJobs,
                   coverLetters>>

(* Faulty variant: a role whose search failed ends the whole search *)
SearchRole_FailureThrows ==
    /\ pc = "searchJobs"
    /\ hasSearchConfig
    /\ pendingRoles > 0
    /\ \/ \E found \in ProviderResponses(MaxListings - Len(allJobs)) :
            /\ allJobs' = allJobs \o found
            /\ roleResults' = Append(roleResults, Given(found))
            /\ UNCHANGED <<pc, thrown>>
       \/ /\ allJobs' = allJobs
          /\ roleResults' = Append(roleResults, NoValue)
          /\ Throw(UntypedError)
    /\ pendingRoles' = pendingRoles - 1
    /\ calls' = calls \cup {"fetchJobs"}
    /\ UNCHANGED request
    /\ UNCHANGED <<abortedAt, failedJobs>>
    /\ UNCHANGED outsideOrchestrator
    /\ UNCHANGED <<hbStarted, closeCount, events, options,
                   minFitScore, generateCoverLetters, hasSearchConfig, jobs, i,
                   batchResults, k, analyses, highFitJobs, coverLetters>>

(* searchJobs: one pass of the loop over config.targetRoles.  The      *)
(* role's withRetry(fetchJobs, rateLimited) returns listings, or throws *)
(* and the role is skipped.                                             *)
SearchRole ==
    /\ pc = "searchJobs"
    /\ hasSearchConfig
    /\ pendingRoles > 0
    /\ \/ \E found \in ProviderResponses(MaxListings - Len(allJobs)) :
            /\ allJobs' = allJobs \o found
            /\ roleResults' = Append(roleResults, Given(found))
       \/ /\ allJobs' = allJobs
          /\ roleResults' = Append(roleResults, NoValue)
    /\ pendingRoles' = pendingRoles - 1
    /\ calls' = calls \cup {"fetchJobs"}
    /\ UNCHANGED request
    /\ UNCHANGED <<abortedAt, failedJobs>>
    /\ UNCHANGED outsideOrchestrator
    /\ UNCHANGED <<pc, hbStarted, closeCount, events, thrown, options,
                   minFitScore, generateCoverLetters, hasSearchConfig, jobs, i,
                   batchResults, k, analyses, highFitJobs, coverLetters>>

(* searchJobs(undefined): reading config.targetRoles throws *)
SearchJobsThrows ==
    /\ pc = "searchJobs"
    /\ ~hasSearchConfig
    /\ Throw(UntypedError)
    /\ UNCHANGED <<request, calls, abortedAt, failedJobs, roleResults>>
    /\ UNCHANGED outsideOrchestrator
    /\ UNCHANGED <<hbStarted, closeCount, events, options, minFitScore,
                   generateCoverLetters, hasSearchConfig, pendingRoles,
                   allJobs, jobs, i, batchResults, k, analyses, highFitJobs,
                   coverLetters>>

(* What searchJobs returns for the listings aggregated *)
searchJobsResult(aggregated, ignoredSites) ==
    deduplicateJobs(filterIgnoredSites(aggregated, ignoredSites))

(* Faulty variant: the jobs.length === 0 early return is missing *)
SearchJobsReturns_NoEmptyCheck ==
    /\ pc = "searchJobs"
    /\ hasSearchConfig
    /\ pendingRoles = 0
    /\ \E ignoredSites \in IgnoredSiteSettings :
         jobs' = searchJobsResult(allJobs, ignoredSites)
    /\ allJobs' = <<>>
    /\ i' = 0
    /\ pc' = IF Len(jobs') = 0 THEN "sendAnalyzing0" ELSE "sendJob"
    /\ UNCHANGED <<request, calls, abortedAt, failedJobs, roleResults>>
    /\ UNCHANGED outsideOrchestrator
    /\ UNCHANGED <<hbStarted, closeCount, events, thrown, options,
                   minFitScore, generateCoverLetters, hasSearchConfig,
                   pendingRoles, batchResults, k, analyses, highFitJobs,
                   coverLetters>>

(* searchJobs returns: filter, deduplicate; the orchestrator takes .jobs *)
SearchJobsReturns ==
    /\ pc = "searchJobs"
    /\ hasSearchConfig
    /\ pendingRoles = 0
    /\ \E ignoredSites \in IgnoredSiteSettings :
         jobs' = searchJobsResult(allJobs, ignoredSites)
    /\ allJobs' = <<>>
    /\ i' = 0
    /\ pc' = IF Len(jobs') = 0 THEN "sendCompleteEmpty" ELSE "sendJob"
    /\ UNCHANGED <<request, calls, abortedAt, failedJobs, roleResults>>
    /\ UNCHANGED outsideOrchestrator
    /\ UNCHANGED <<hbStarted, closeCount, events, thrown, options, minFitScore,
                   generateCoverLetters, hasSearchConfig, pendingRoles,
                   batchResults, k, analyses, highFitJobs, coverLetters>>

SendJob ==
    /\ pc = "sendJob"
    /\ sendEvent(JobEvent(jobs[i + 1]))
    /\ pc' = "sendSearchingPhase"
    /\ UNCHANGED <<request, calls, abortedAt, failedJobs, roleResults>>
    /\ UNCHANGED outsideOrchestrator
    /\ UNCHANGED <<hbStarted, closeCount, thrown, options, minFitScore,
                   generateCoverLetters, hasSearchConfig, pendingRoles,
                   allJobs, jobs, i, batchResults, k, analyses, highFitJobs,
                   coverLetters>>

searchingProgress(found, total) == RoundPercent(found + 1, total)

(* sendPhase('searching', Math.round(((i + 1) / jobs.length) * 100)) *)
SendSearchingPhase ==
    /\ pc = "sendSearchingPhase"
    /\ sendEvent(PhaseEvent("searching", searchingProgress(i, Len(jobs))))
    /\ i' = i + 1
    /\ pc' = IF i + 1 < Len(jobs) THEN "sendJob" ELSE "sendAnalyzing0"
    /\ UNCHANGED <<request, calls, abortedAt, failedJobs, roleResults>>
    /\ UNCHANGED outsideOrchestrator
    /\ UNCHANGED <<hbStarted, closeCount, thrown, options, minFitScore,
                   generateCoverLetters, hasSearchConfig, pendingRoles,
                   allJobs, jobs, batchResults, k, analyses, highFitJobs,
                   coverLetters>>

ZeroSummary ==
    [totalJobs |-> 0, analyzedJobs |-> 0, highFitJobs |-> 0,
     mediumFitJobs |-> 0, coverLettersGenerated |-> 0]

(* Faulty variant: the zero-job exit returns without close() *)
SendCompleteEmpty_NoClose ==
    /\ pc = "sendCompleteEmpty"
    /\ sendEvent(CompleteEvent(ZeroSummary))
    /\ pc' = "done"
    /\ roleResults' = <<>>
    /\ UNCHANGED <<request, calls, abortedAt, failedJobs>>
    /\ UNCHANGED outsideOrchestrator
    /\ UNCHANGED <<hbStarted, closeCount, thrown, options, minFitScore,
                   generateCoverLetters, hasSearchConfig, pendingRoles,
                   allJobs, jobs, i, batchResults, k, analyses, highFitJobs,
                   coverLetters>>

(* jobs.length === 0: sendComplete with the zero summary *)
SendCompleteEmpty ==
    /\ pc = "sendCompleteEmpty"
    /\ sendEvent(CompleteEvent(ZeroSummary))
    /\ pc' = "close"
    /\ roleResults' = <<>>
    /\ UNCHANGED <<request, calls, abortedAt, failedJobs>>
    /\ UNCHANGED outsideOrchestrator
    /\ UNCHANGED <<hbStarted, closeCount, thrown, options, minFitScore,
                   generateCoverLetters, hasSearchConfig, pendingRoles,
                   allJobs, jobs, i, batchResults, k, analyses, highFitJobs,
                   coverLetters>>

(* jobs.slice(from, from + batchSize) *)
(* Faulty variant: all the jobs that are left go into one batch *)
batchOf_All(from) == SubSeq(jobs, from + 1, Len(jobs))

batchOf(from) == SubSeq(jobs, from + 1, Min(from + batchSize, Len(jobs)))

(* batch.map(async ...): every call of the batch is issued *)
dispatchBatch(from) == [n \in 1..Len(batchOf(from)) |-> Pending]

(* sendPhase('analyzing', 0); the first batch is dispatched *)
SendAnalyzingStart ==
    /\ pc = "sendAnalyzing0"
    /\ sendEvent(PhaseEvent("analyzing", 0))
    /\ i' = 0
    /\ analyses' = <<>>
    /\ highFitJobs' = <<>>
    /\ batchResults' = dispatchBatch(0)
    /\ pc' = "awaitBatch"
    /\ calls' = calls \cup {"generateText"}
    /\ roleResults' = <<>>
    /\ UNCHANGED request
    /\ UNCHANGED <<abortedAt, failedJobs>>
    /\ UNCHANGED outsideOrchestrator
    /\ UNCHANGED <<hbStarted, closeCount, thrown, options, minFitScore,
                   generateCoverLetters, hasSearchConfig, pendingRoles,
                   allJobs, jobs, k, coverLetters>>

(* The first slot at or after `from` that holds an analysis *)
nextAnalysis(results, from) ==
    IF \E n \in from..Len(results) : results[n] # Null
    THEN CHOOSE n \in from..Len(results) :
            /\ results[n] # Null
            /\ \A m \in from..(n - 1) : results[m] = Null
    ELSE Len(results) + 1

(* Faulty variant: each analysis is sent as soon as its call settles *)
AnalyzeJobFit_SendOnSettle(slot) ==
    /\ pc = "awaitBatch"
    /\ batchResults[slot] = Pending
    /\ \E result \in {Null} \cup
           { [jobId |-> batchOf(i)[slot].id, overallScore |-> score] :
               score \in Scores } :
         /\ batchResults' = [batchResults EXCEPT ![slot] = Null]
         /\ failedJobs' = IF result = Null
                          THEN failedJobs \cup {batchOf(i)[slot].id}
                          ELSE failedJobs
         /\ IF result = Null
            THEN UNCHANGED <<events, analyses>>
            ELSE /\ sendEvent(AnalysisEvent(result))
                 /\ analyses' = Append(analyses, result)
    /\ IF \A n \in 1..Len(batchResults') : batchResults'[n] # Pending
       THEN /\ pc' = "emitBatch"
            /\ k' = nextAnalysis(batchResults', 1)
       ELSE UNCHANGED <<pc, k>>
    /\ UNCHANGED <<request, calls, abortedAt, roleResults>>
    /\ UNCHANGED outsideOrchestrator
    /\ UNCHANGED <<hbStarted, closeCount, thrown, options, minFitScore,
                   generateCoverLetters, hasSearchConfig, pendingRoles,
                   allJobs, jobs, i, highFitJobs, coverLetters>>

(* Faulty variant: the per-job catch is missing, so a failed call rejects
   Promise.all and the run goes to the outer catch *)
AnalyzeJobFit_FailureThrows(slot) ==
    /\ pc = "awaitBatch"
    /\ batchResults[slot] = Pending
    /\ \E result \in {Null} \cup
           { [jobId |-> batchOf(i)[slot].id, overallScore |-> score] :
               score \in Scores } :
         /\ batchResults' = [batchResults EXCEPT ![slot] = result]
         /\ failedJobs' = IF result = Null
                          THEN failedJobs \cup {batchOf(i)[slot].id}
                          ELSE failedJobs
         /\ IF result = Null
            THEN /\ Throw(UntypedError)
                 /\ UNCHANGED k
            ELSE /\ UNCHANGED thrown
                 /\ IF \A n \in 1..Len(batchResults') :
                           batchResults'[n] # Pending
                    THEN /\ pc' = "emitBatch"
                         /\ k' = nextAnalysis(batchResults', 1)
                    ELSE UNCHANGED <<pc, k>>
    /\ UNCHANGED <<request, calls, abortedAt, roleResults>>
    /\ UNCHANGED outsideOrchestrator
    /\ UNCHANGED <<hbStarted, closeCount, events, options, minFitScore,
                   generateCoverLetters, hasSearchConfig, pendingRoles,
                   allJobs, jobs, i, analyses, highFitJobs, coverLetters>>

(* analyzeJobFit(profile, job) of one slot settles: an analysis, or the *)
(* call threw (withRetry gave up, or the text is no JSON) and the slot  *)
(* is null.  Promise.all resolves when the last slot settles.           *)
AnalyzeJobFit(slot) ==
    /\ pc = "awaitBatch"
    /\ batchResults[slot] = Pending
    /\ \E result \in {Null} \cup
           { [jobId |-> batchOf(i)[slot].id, overallScore |-> score] :
               score \in Scores } :
         /\ batchResults' = [batchResults EXCEPT ![slot] = result]
         /\ failedJobs' = IF result = Null
                          THEN failedJobs \cup {batchOf(i)[slot].id}
                          ELSE failedJobs
    /\ IF \A n \in 1..Len(batchResults') : batchResults'[n] # Pending
       THEN /\ pc' = "emitBatch"
            /\ k' = nextAnalysis(batchResults', 1)
       ELSE UNCHANGED <<pc, k>>
    /\ UNCHANGED <<request, calls, abortedAt, roleResults>>
    /\ UNCHANGED outsideOrchestrator
    /\ UNCHANGED <<hbStarted, closeCount, events, thrown, options, minFitScore,
                   generateCoverLetters, hasSearchConfig, pendingRoles,
                   allJobs, jobs, i, analyses, highFitJobs, coverLetters>>

(* jobs.find((j) => j.id === jobId) *)
findJob(jobId) ==
    IF \E n \in 1..Len(jobs) : jobs[n].id = jobId
    THEN <<jobs[CHOOSE n \in 1..Len(jobs) :
                  /\ jobs[n].id = jobId
                  /\ \A m \in 1..(n - 1) : jobs[m].id # jobId]>>
    ELSE <<>>

(* Faulty variant: the threshold is the default whatever the request says *)
qualifies_DefaultOnly(analysis, threshold) ==
    analysis.overallScore >= DefaultMinFitScore

qualifies(analysis, threshold) == analysis.overallScore >= threshold

(* Faulty variant: the analysis is pushed and selected but never sent *)
SendAnalysis_NotSent ==
    /\ pc = "emitBatch"
    /\ k <= Len(batchResults)
    /\ analyses' = Append(analyses, batchResults[k])
    /\ highFitJobs' = IF batchResults[k].overallScore >= minFitScore
                      THEN highFitJobs \o findJob(batchResults[k].jobId)
                      ELSE highFitJobs
    /\ k' = nextAnalysis(batchResults, k + 1)
    /\ UNCHANGED <<request, calls, abortedAt, failedJobs, roleResults>>
    /\ UNCHANGED outsideOrchestrator
    /\ UNCHANGED <<pc, hbStarted, closeCount, events, thrown, options,
                   minFitScore, generateCoverLetters, hasSearchConfig,
                   pendingRoles, allJobs, jobs, i, batchResults,
                   coverLetters>>

(* Faulty variant: the letter of a qualifying job is sent with its
   analysis *)
SendAnalysis_LetterAtOnce ==
    /\ pc = "emitBatch"
    /\ k <= Len(batchResults)
    /\ analyses' = Append(analyses, batchResults[k])
    /\ events' =
           IF qualifies(batchResults[k], minFitScore)
           THEN events \o <<AnalysisEvent(batchResults[k]),
                            CoverLetterEvent(batchResults[k])>>
           ELSE Append(events, AnalysisEvent(batchResults[k]))
    /\ highFitJobs' = IF qualifies(batchResults[k], minFitScore)
                      THEN highFitJobs \o findJob(batchResults[k].jobId)
                      ELSE highFitJobs
    /\ k' = nextAnalysis(batchResults, k + 1)
    /\ UNCHANGED <<request, calls, abortedAt, failedJobs, roleResults>>
    /\ UNCHANGED outsideOrchestrator
    /\ UNCHANGED <<pc, hbStarted, closeCount, thrown, options, minFitScore,
                   generateCoverLetters, hasSearchConfig, pendingRoles,
                   allJobs, jobs, i, batchResults, coverLetters>>

(* for (const analysis of batchResults): push, sendAnalysis, select *)
SendAnalysis ==
    /\ pc = "emitBatch"
    /\ k <= Len(batchResults)
    /\ analyses' = Append(analyses, batchResults[k])
    /\ sendEvent(AnalysisEvent(batchResults[k]))
    /\ highFitJobs' = IF qualifies(batchResults[k], minFitScore)
                      THEN highFitJobs \o findJob(batchResults[k].jobId)
                      ELSE highFitJobs
    /\ k' = nextAnalysis(batchResults, k + 1)
    /\ UNCHANGED <<request, calls, abortedAt, failedJobs, roleResults>>
    /\ UNCHANGED outsideOrchestrator
    /\ UNCHANGED <<pc, hbStarted, closeCount, thrown, options, minFitScore,
                   generateCoverLetters, hasSearchConfig, pendingRoles,
                   allJobs, jobs, i, batchResults, coverLetters>>

(* Faulty variant: the progress counts the current batch only *)
analyzingProgress_BatchOnly(from, batchLength, total) ==
    RoundPercent(batchLength, total)

analyzingProgress(from, batchLength, total) ==
    RoundPercent(from + batchLength, total)

(* sendPhase('analyzing', progress) after a batch; then the next batch *)
(* is dispatched, or the loop ends                                     *)
SendAnalyzingPhase ==
    /\ pc = "emitBatch"
    /\ k > Len(batchResults)
    /\ sendEvent(PhaseEvent("analyzing",
                     analyzingProgress(i, Len(batchResults), Len(jobs))))
    /\ i' = i + batchSize
    /\ IF i + batchSize < Len(jobs)
       THEN /\ batchResults' = dispatchBatch(i + batchSize)
            /\ calls' = calls \cup {"generateText"}
            /\ pc' = "awaitBatch"
       ELSE /\ batchResults' = <<>>
            /\ pc' = IF generateCoverLetters /\ Len(highFitJobs) > 0
                     THEN "sendGenerating0" ELSE "sendComplete"
            /\ UNCHANGED calls
    /\ coverLetters' = <<>>
    /\ UNCHANGED request
    /\ UNCHANGED <<abortedAt, failedJobs, roleResults>>
    /\ UNCHANGED outsideOrchestrator
    /\ UNCHANGED <<hbStarted, closeCount, thrown, options, minFitScore,
                   generateCoverLetters, hasSearchConfig, pendingRoles,
                   allJobs, jobs, k, analyses, highFitJobs>>

(* sendPhase('generating', 0) *)
SendGeneratingStart ==
    /\ pc = "sendGenerating0"
    /\ sendEvent(PhaseEvent("generating", 0))
    /\ i' = 0
    /\ pc' = "generateCoverLetter"
    /\ UNCHANGED <<request, calls, abortedAt, failedJobs, roleResults>>
    /\ UNCHANGED outsideOrchestrator
    /\ UNCHANGED <<hbStarted, closeCount, thrown, options, minFitScore,
                   generateCoverLetters, hasSearchConfig, pendingRoles,
                   allJobs, jobs, batchResults, k, analyses, highFitJobs,
                   coverLetters>>

(* analyses.find((a) => a.jobId === jobId) *)
findAnalysis(jobId) ==
    IF \E n \in 1..Len(analyses) : analyses[n].jobId = jobId
    THEN <<analyses[CHOOSE n \in 1..Len(analyses) :
                      /\ analyses[n].jobId = jobId
                      /\ \A m \in 1..(n - 1) : analyses[m].jobId # jobId]>>
    ELSE <<>>

(* generateCoverLetter(profile, job, analysis, template) for           *)
(* highFitJobs[i]: a letter is pushed, or the call threw and is logged *)
GenerateCoverLetter ==
    /\ pc = "generateCoverLetter"
    /\ IF findAnalysis(highFitJobs[i + 1].id) = <<>>
       THEN /\ pc' = "sendGeneratingPhase"
            /\ UNCHANGED coverLetters
       ELSE \/ /\ coverLetters' =
                     Append(coverLetters, [jobId |-> highFitJobs[i + 1].id])
               /\ pc' = "sendCoverLetter"
            \/ /\ pc' = "sendGeneratingPhase"
               /\ UNCHANGED coverLetters
    /\ calls' = calls \cup {"generateText"}
    /\ UNCHANGED request
    /\ UNCHANGED <<abortedAt, failedJobs, roleResults>>
    /\ UNCHANGED outsideOrchestrator
    /\ UNCHANGED <<hbStarted, closeCount, events, thrown, options, minFitScore,
                   generateCoverLetters, hasSearchConfig, pendingRoles,
                   allJobs, jobs, i, batchResults, k, analyses, highFitJobs>>

SendCoverLetter ==
    /\ pc = "sendCoverLetter"
    /\ sendEvent(CoverLetterEvent(coverLetters[Len(coverLetters)]))
    /\ pc' = "sendGeneratingPhase"
    /\ UNCHANGED <<request, calls, abortedAt, failedJobs, roleResults>>
    /\ UNCHANGED outsideOrchestrator
    /\ UNCHANGED <<hbStarted, closeCount, thrown, options, minFitScore,
                   generateCoverLetters, hasSearchConfig, pendingRoles,
                   allJobs, jobs, i, batchResults, k, analyses, highFitJobs,
                   coverLetters>>

generatingProgress(done, total) == RoundPercent(done + 1, total)

(* Faulty variant: the per-letter phase event is labelled 'analyzing' *)
SendGeneratingPhase_AsAnalyzing ==
    /\ pc = "sendGeneratingPhase"
    /\ sendEvent(PhaseEvent("analyzing",
                     generatingProgress(i, Len(highFitJobs))))
    /\ i' = i + 1
    /\ pc' = IF i + 1 < Len(highFitJobs)
             THEN "generateCoverLetter" ELSE "sendComplete"
    /\ UNCHANGED <<request, calls, abortedAt, failedJobs, roleResults>>
    /\ UNCHANGED outsideOrchestrator
    /\ UNCHANGED <<hbStarted, closeCount, thrown, options, minFitScore,
                   generateCoverLetters, hasSearchConfig, pendingRoles,
                   allJobs, jobs, batchResults, k, analyses, highFitJobs,
                   coverLetters>>

(* sendPhase('generating', Math.round(((i + 1) / highFitJobs.length) * 100)) *)
SendGeneratingPhase ==
    /\ pc = "sendGeneratingPhase"
    /\ sendEvent(PhaseEvent("generating",
                     generatingProgress(i, Len(highFitJobs))))
    /\ i' = i + 1
    /\ pc' = IF i + 1 < Len(highFitJobs)
             THEN "generateCoverLetter" ELSE "sendComplete"
    /\ UNCHANGED <<request, calls, abortedAt, failedJobs, roleResults>>
    /\ UNCHANGED outsideOrchestrator
    /\ UNCHANGED <<hbStarted, closeCount, thrown, options, minFitScore,
                   generateCoverLetters, hasSearchConfig, pendingRoles,
                   allJobs, jobs, batchResults, k, analyses, highFitJobs,
                   coverLetters>>

isHighFit(a) == a.overallScore >= HighFitScore
(* Faulty variant: the medium band has no upper bound *)
isMediumFit_NoUpperBound(a) == a.overallScore >= MediumFitScore

isMediumFit(a) ==
    a.overallScore >= MediumFitScore /\ a.overallScore < HighFitScore

summary ==
    [totalJobs |-> Len(jobs),
     analyzedJobs |-> Len(analyses),
     highFitJobs |->
         Cardinality({n \in 1..Len(analyses) : isHighFit(analyses[n])}),
     mediumFitJobs |->
         Cardinality({n \in 1..Len(analyses) : isMediumFit(analyses[n])}),
     coverLettersGenerated |-> Len(coverLetters)]

SendComplete ==
    /\ pc = "sendComplete"
    /\ sendEvent(CompleteEvent(summary))
    /\ pc' = "close"
    /\ UNCHANGED <<request, calls, abortedAt, failedJobs, roleResults>>
    /\ UNCHANGED outsideOrchestrator
    /\ UNCHANGED <<hbStarted, closeCount, thrown, options, minFitScore,
                   generateCoverLetters, hasSearchConfig, pendingRoles,
                   allJobs, jobs, i, batchResults, k, analyses, highFitJobs,
                   coverLetters>>

(* Faulty variant: the catch only logs the error *)
CatchFatal_LogOnly ==
    /\ pc = "catch"
    /\ pc' = "close"
    /\ UNCHANGED <<request, calls, abortedAt, failedJobs, roleResults>>
    /\ UNCHANGED outsideOrchestrator
    /\ UNCHANGED <<hbStarted, closeCount, events, thrown, options,
                   minFitScore, generateCoverLetters, hasSearchConfig,
                   pendingRoles, allJobs, jobs, i, batchResults, k, analyses,
                   highFitJobs, coverLetters>>

(* The top-level catch: wrapError(error, 'error', 'UNKNOWN'), sendError *)
CatchFatal ==
    /\ pc = "catch"
    /\ LET scouterError == wrapError(thrown[1], "error", Given("UNKNOWN"))
       IN sendEvent(ErrorEvent(scouterError.code, scouterError.phase,
                               scouterError.recoverable))
    /\ pc' = "close"
    /\ UNCHANGED <<request, calls, abortedAt, failedJobs, roleResults>>
    /\ UNCHANGED outsideOrchestrator
    /\ UNCHANGED <<hbStarted, closeCount, thrown, options, minFitScore,
                   generateCoverLetters, hasSearchConfig, pendingRoles,
                   allJobs, jobs, i, batchResults, k, analyses, highFitJobs,
                   coverLetters>>

(* await pipeline.close(), after which the async function returns *)
Close ==
    /\ pc = "close"
    /\ closeCount' = closeCount + 1
    /\ pc' = "done"
    /\ UNCHANGED <<request, calls, abortedAt, failedJobs, roleResults>>
    /\ UNCHANGED outsideOrchestrator
    /\ UNCHANGED <<hbStarted, events, thrown, options, minFitScore,
                   generateCoverLetters, hasSearchConfig, pendingRoles,
                   allJobs, jobs, i, batchResults, k, analyses, highFitJobs,
                   coverLetters>>

Next ==
    \/ StartHeartbeat
    \/ ReadFormData
    \/ SendValidationError
    \/ SendParsingStart
    \/ ExtractText
    \/ SendPDFError
    \/ SendParsingHalf
    \/ ParseResume
    \/ SendProfile
    \/ SendParsingDone
    \/ SendSearchingStart
    \/ SearchRole
    \/ SearchJobsThrows
    \/ SearchJobsReturns
    \/ SendJob
    \/ SendSearchingPhase
    \/ SendCompleteEmpty
    \/ SendAnalyzingStart
    \/ \E slot \in 1..Len(batchResults) : AnalyzeJobFit(slot)
    \/ SendAnalysis
    \/ SendAnalyzingPhase
    \/ SendGeneratingStart
    \/ GenerateCoverLetter
    \/ SendCoverLetter
    \/ SendGeneratingPhase
    \/ SendComplete
    \/ CatchFatal
    \/ Close

Spec == Init /\ [][Next]_vars

(* Each awaited call returns or throws, and the function runs on *)
FairSpec == Spec /\ WF_vars(Next)

(***************************************************************************)
(* Cancellation: request.signal fires while the orchestrator runs.  The    *)
(* orchestrator hands the signal to the transport and never reads it; the  *)
(* transport is the streaming library, which stops emission once the       *)
(* signal it was given has fired.                                          *)
(***************************************************************************)

(* The client goes away: request.signal fires, once, while the stream is
   open.  The orchestrator's own state is untouched *)
Abort ==
    /\ pc # "done"
    /\ abortedAt = NoValue
    /\ abortedAt' = Given(Len(events))
    /\ UNCHANGED <<pc, hbStarted, closeCount, events, thrown, options,
                   minFitScore, generateCoverLetters, hasSearchConfig,
                   pendingRoles, allJobs, jobs, i, batchResults, k, analyses,
                   highFitJobs, coverLetters, request, calls, failedJobs,
                   roleResults>>
    /\ UNCHANGED outsideOrchestrator

(* Faulty variant: the stream is created without the request's signal *)
streamSignal_NotPassed == NoValue

(* The signal the transport was created with: createPipelineStream passes
   config.signal, which POST set to request.signal *)
streamSignal == abortedAt

(* What the transport put on the channel: every event handed to sendEvent
   until the signal it holds fired, nothing after *)
Emitted ==
    IF streamSignal = NoValue
    THEN events
    ELSE SubSeq(events, 1, streamSignal[1])

CancelNext == Next \/ Abort

CancelSpec == Init /\ [][CancelNext]_vars

----------------------------------------------------------------------------
(* src/hooks/use-pipeline-sse.ts: one withRetry(operation, config,       *)
(* observer) call.  The operation is free to return or to throw any of   *)
(* OperationErrors at each invocation.                                   *)

(* withRetry has just been called with one of RetryConfigs *)
RetryInit ==
    /\ OrchestratorIdle
    /\ ProgressIdle
    /\ ClientIdle
    /\ WrapIdle
    /\ QualifyIdle
    /\ retryPc = "operation"
    /\ \E config \in RetryConfigs : opts = mergeConfig(config)
    /\ attempt = 0
    /\ lastError = NoValue
    /\ invocations = 0
    /\ onRetry = <<>>
    /\ onSuccess = <<>>
    /\ onExhausted = <<>>
    /\ outcome = NoValue
    /\ abortedAfter = NoValue

Returned(value) == Given([kind |-> "returned", value |-> value])
Thrown(error) == Given([kind |-> "thrown", error |-> error])

(* Faulty variant: onSuccess is given the one-based attempt number *)
OperationReturns_OneBased ==
    /\ retryPc = "operation"
    /\ invocations' = invocations + 1
    /\ onSuccess' = Append(onSuccess, attempt + 1)
    /\ outcome' = Returned("result")
    /\ retryPc' = "done"
    /\ UNCHANGED <<opts, attempt, lastError, onRetry, onExhausted>>
    /\ UNCHANGED <<abortedAfter, outsideRetry>>

(* await operation() returns: onSuccess(attempt), return result *)
OperationReturns ==
    /\ retryPc = "operation"
    /\ invocations' = invocations + 1
    /\ onSuccess' = Append(onSuccess, attempt)
    /\ outcome' = Returned("result")
    /\ retryPc' = "done"
    /\ UNCHANGED <<opts, attempt, lastError, onRetry, onExhausted>>
    /\ UNCHANGED <<abortedAfter, outsideRetry>>

(* Faulty variant: every error is retried, whatever the patterns *)
OperationThrows_NoPatternCheck ==
    /\ retryPc = "operation"
    /\ invocations' = invocations + 1
    /\ \E error \in OperationErrors :
         /\ lastError' = Given(error)
         /\ IF attempt = opts.maxRetries
            THEN /\ onExhausted' = Append(onExhausted,
                        [attempts |-> attempt + 1, lastError |-> error])
                 /\ outcome' = Thrown(error)
                 /\ retryPc' = "done"
                 /\ UNCHANGED onRetry
            ELSE /\ \E random \in 0..(RandomSteps - 1) :
                      onRetry' = Append(onRetry,
                          [attempt |-> attempt + 1,
                           delay |-> calculateDelay(attempt, opts, random),
                           error |-> error])
                 /\ retryPc' = "sleep"
                 /\ UNCHANGED <<onExhausted, outcome>>
    /\ UNCHANGED <<opts, attempt, onSuccess>>
    /\ UNCHANGED <<abortedAfter, outsideRetry>>

(* Faulty variant: the loop gives up one attempt too late *)
OperationThrows_ExhaustLate ==
    /\ retryPc = "operation"
    /\ invocations' = invocations + 1
    /\ \E error \in OperationErrors :
         /\ lastError' = Given(error)
         /\ IF ~isRetryable(error, opts.retryablePatterns)
            THEN /\ outcome' = Thrown(error)
                 /\ retryPc' = "done"
                 /\ UNCHANGED <<onRetry, onExhausted>>
            ELSE IF attempt = opts.maxRetries + 1
            THEN /\ onExhausted' = Append(onExhausted,
                        [attempts |-> attempt + 1, lastError |-> error])
                 /\ outcome' = Thrown(error)
                 /\ retryPc' = "done"
                 /\ UNCHANGED onRetry
            ELSE /\ \E random \in 0..(RandomSteps - 1) :
                      onRetry' = Append(onRetry,
                          [attempt |-> attempt + 1,
                           delay |-> calculateDelay(attempt, opts, random),
                           error |-> error])
                 /\ retryPc' = "sleep"
                 /\ UNCHANGED <<onExhausted, outcome>>
    /\ UNCHANGED <<opts, attempt, onSuccess>>
    /\ UNCHANGED <<abortedAfter, outsideRetry>>

(* await operation() throws: the catch block up to its throw or sleep *)
OperationThrows ==
    /\ retryPc = "operation"
    /\ invocations' = invocations + 1
    /\ \E error \in OperationErrors :
         /\ lastError' = Given(error)
         /\ IF ~isRetryable(error, opts.retryablePatterns)
            THEN /\ outcome' = Thrown(error)
                 /\ retryPc' = "done"
                 /\ UNCHANGED <<onRetry, onExhausted>>
            ELSE IF attempt = opts.maxRetries
            THEN /\ onExhausted' = Append(onExhausted,
                        [attempts |-> attempt + 1, lastError |-> error])
                 /\ outcome' = Thrown(error)
                 /\ retryPc' = "done"
                 /\ UNCHANGED onRetry
            ELSE /\ \E random \in 0..(RandomSteps - 1) :
                      onRetry' = Append(onRetry,
                          [attempt |-> attempt + 1,
                           delay |-> calculateDelay(attempt, opts, random),
                           error |-> error])
                 /\ retryPc' = "sleep"
                 /\ UNCHANGED <<onExhausted, outcome>>
    /\ UNCHANGED <<opts, attempt, onSuccess>>
    /\ UNCHANGED <<abortedAfter, outsideRetry>>

(* await sleep(delay) is over: the loop goes to its next attempt *)
sleep ==
    /\ retryPc = "sleep"
    /\ attempt' = attempt + 1
    /\ retryPc' = "operation"
    /\ UNCHANGED <<opts, lastError, invocations, onRetry, onSuccess,
                   onExhausted, outcome>>
    /\ UNCHANGED <<abortedAfter, outsideRetry>>

RetryNext ==
    \/ OperationReturns
    \/ OperationThrows
    \/ sleep

RetrySpec == RetryInit /\ [][RetryNext]_vars

(* The cancellation signal of the request fires while a withRetry call is
   in progress, during an invocation or during a sleep.  withRetry has no
   signal parameter and reads no signal: its own state is untouched *)
RetryAbort ==
    /\ retryPc \in {"operation", "sleep"}
    /\ abortedAfter = NoValue
    /\ abortedAfter' =
           Given(invocations + (IF retryPc = "operation" THEN 1 ELSE 0))
    /\ UNCHANGED <<retryPc, opts, attempt, lastError, invocations, onRetry,
                   onSuccess, onExhausted, outcome>>
    /\ UNCHANGED outsideRetry

RetryCancelNext == RetryNext \/ RetryAbort

RetryCancelSpec == RetryInit /\ [][RetryCancelNext]_vars

----------------------------------------------------------------------------
(* src/lib/jobs/jsearch.ts: searchJobs runs each role's fetchJobs under   *)
(* withRetry with RetryPresets.rateLimited.                               *)

(* fetchJobs: process.env.RAPIDAPI_KEY is not set *)
MissingApiKey ==
    [class |-> "ScouterError",
     code |-> <<"S", "E", "A", "R", "C", "H", "_", "F", "A", "I", "L", "E",
               "D">>,
     status |-> <<>>,
     message |-> <<"R", "A", "P", "I", "D", "A", "P", "I", "_", "K", "E",
                  "Y", " ", "e", "n", "v", "i", "r", "o", "n", "m", "e",
                  "n", "t", " ", "v", "a", "r", "i", "a", "b", "l", "e",
                  " ", "n", "o", "t", " ", "s", "e", "t">>]

(* fetchJobs: the response has status 500 *)
InternalServerError ==
    [class |-> "ScouterError",
     code |-> <<"S", "E", "A", "R", "C", "H", "_", "F", "A", "I", "L", "E",
               "D">>,
     status |-> <<>>,
     message |-> <<"J", "S", "e", "a", "r", "c", "h", " ", "A", "P", "I",
                  " ", "e", "r", "r", "o", "r", ":", " ", "5", "0", "0",
                  " ", "I", "n", "t", "e", "r", "n", "a", "l", " ", "S",
                  "e", "r", "v", "e", "r", " ", "E", "r", "r", "o", "r">>]

(* fetchJobs: the response has status 503 *)
ServiceUnavailable503 ==
    [class |-> "ScouterError",
     code |-> <<"S", "E", "A", "R", "C", "H", "_", "F", "A", "I", "L", "E",
               "D">>,
     status |-> <<>>,
     message |-> <<"J", "S", "e", "a", "r", "c", "h", " ", "A", "P", "I",
                  " ", "e", "r", "r", "o", "r", ":", " ", "5", "0", "3",
                  " ", "S", "e", "r", "v", "i", "c", "e", " ", "U", "n",
                  "a", "v", "a", "i", "l", "a", "b", "l", "e">>]

(* What fetchJobs throws: the rate limit error of status 429, the
   authentication error of status 401 or 403, the missing key, and the
   error of any other status that is not ok *)
FetchJobsErrors ==
    {RateLimitExceeded, AuthenticationFailed, MissingApiKey,
     InternalServerError, ServiceUnavailable503}

(* withRetry(() => fetchJobs(role, config), RetryPresets.rateLimited, ...)
   has just been called for one role *)
FetchJobsInit ==
    /\ OrchestratorIdle
    /\ ProgressIdle
    /\ ClientIdle
    /\ WrapIdle
    /\ QualifyIdle
    /\ retryPc = "operation"
    /\ opts = mergeConfig(RetryPresets.rateLimited)
    /\ attempt = 0
    /\ lastError = NoValue
    /\ invocations = 0
    /\ onRetry = <<>>
    /\ onSuccess = <<>>
    /\ onExhausted = <<>>
    /\ outcome = NoValue
    /\ abortedAfter = NoValue

(* await fetchJobs(role, config) throws: the catch block of withRetry up
   to its throw or sleep *)
FetchJobsThrows ==
    /\ retryPc = "operation"
    /\ invocations' = invocations + 1
    /\ \E error \in FetchJobsErrors :
         /\ lastError' = Given(error)
         /\ IF ~isRetryable(error, opts.retryablePatterns)
            THEN /\ outcome' = Thrown(error)
                 /\ retryPc' = "done"
                 /\ UNCHANGED <<onRetry, onExhausted>>
            ELSE IF attempt = opts.maxRetries
            THEN /\ onExhausted' = Append(onExhausted,
                        [attempts |-> attempt + 1, lastError |-> error])
                 /\ outcome' = Thrown(error)
                 /\ retryPc' = "done"
                 /\ UNCHANGED onRetry
            ELSE /\ \E random \in 0..(RandomSteps - 1) :
                      onRetry' = Append(onRetry,
                          [attempt |-> attempt + 1,
                           delay |-> calculateDelay(attempt, opts, random),
                           error |-> error])
                 /\ retryPc' = "sleep"
                 /\ UNCHANGED <<onExhausted, outcome>>
    /\ UNCHANGED <<opts, attempt, onSuccess>>
    /\ UNCHANGED <<abortedAfter, outsideRetry>>

FetchJobsNext ==
    \/ OperationReturns
    \/ FetchJobsThrows
    \/ sleep

FetchJobsSpec == FetchJobsInit /\ [][FetchJobsNext]_vars

----------------------------------------------------------------------------
(* src/hooks/use-pipeline-sse.ts: the client hook.  One start() call reads *)
(* the response body chunk by chunk, cuts it into lines and hands every    *)
(* data line that parses as JSON to handleMessage, which updates the       *)
(* session of the search context (src/unnamed/part_003).  Text is a        *)
(* sequence of characters.                                                 *)

MaxFrames == 3
MaxChunk == 3

eventPrefix ==
    <<"e", "v", "e", "n", "t", ":">>

dataPrefix ==
    <<"d", "a", "t", "a", ":">>

messageLabel ==
    <<"m", "e", "s", "s", "a", "g", "e">>

phaseLabel ==
    <<"p", "h", "a", "s", "e">>

profileLabel ==
    <<"p", "r", "o", "f", "i", "l", "e">>

jobLabel ==
    <<"j", "o", "b">>

analysisLabel ==
    <<"a", "n", "a", "l", "y", "s", "i", "s">>

coverLetterLabel ==
    <<"c", "o", "v", "e", "r", "L", "e", "t", "t", "e", "r">>

completeLabel ==
    <<"c", "o", "m", "p", "l", "e", "t", "e">>

errorLabel ==
    <<"e", "r", "r", "o", "r">>

heartbeatLabel ==
    <<"h", "e", "a", "r", "t", "b", "e", "a", "t">>

(* JSON texts that occur in the stream *)
phaseText ==
    <<"{", "\"", "p", "h", "a", "s", "e", "\"", ":", "\"", "p", "a", "r", "s",
      "i", "n", "g", "\"", ",", "\"", "p", "r", "o", "g", "r", "e", "s", "s",
      "\"", ":", "5", "0", "}">>

jobText ==
    <<"{", "\"", "i", "d", "\"", ":", "1", "}">>

completeText ==
    <<"{", "\"", "t", "o", "t", "a", "l", "J", "o", "b", "s", "\"", ":", "1",
      "}">>

errorText ==
    <<"{", "\"", "m", "e", "s", "s", "a", "g", "e", "\"", ":", "\"", "x", "\"",
      "}">>

heartbeatText ==
    <<"{", "\"", "t", "i", "m", "e", "s", "t", "a", "m", "p", "\"", ":", "1",
      "}">>

truncatedText ==
    <<"{", "\"", "i", "d", "\"", ":">>

(* JSON.parse on the texts above: the value of each text that is JSON;
   truncatedText is none, JSON.parse throws on it *)
JSONTexts ==
    { [text |-> phaseText,
       value |-> [phase |-> "parsing", progress |-> 50]],
      [text |-> jobText, value |-> [id |-> 1]],
      [text |-> completeText, value |-> [totalJobs |-> 1]],
      [text |-> errorText, value |-> [message |-> "x"]],
      [text |-> heartbeatText, value |-> [timestamp |-> 1]] }

isJSON(text) == \E json \in JSONTexts : json.text = text

JSONparse(text) == (CHOOSE json \in JSONTexts : json.text = text).value

(* object.field, undefined when the object has no such field *)
Get(object, field) ==
    IF field \in DOMAIN object THEN Given(object[field]) ELSE NoValue

(* The frames a response body is made of: an event: line, a data: line and
   a blank line.  The last one carries a payload cut short *)
Frames ==
    { [event |-> phaseLabel, data |-> phaseText],
      [event |-> jobLabel, data |-> jobText],
      [event |-> completeLabel, data |-> completeText],
      [event |-> errorLabel, data |-> errorText],
      [event |-> heartbeatLabel, data |-> heartbeatText],
      [event |-> jobLabel, data |-> truncatedText] }

(* The text of a frame; a frame whose event is empty has no event: line *)
FrameText(frame) ==
    (IF frame.event = <<>>
     THEN <<>> ELSE eventPrefix \o <<" ">> \o frame.event \o <<"\n">>)
        \o dataPrefix \o <<" ">> \o frame.data \o <<"\n", "\n">>

RECURSIVE StreamText(_)
(* The characters of a body made of the given frames *)
StreamText(fs) ==
    IF fs = <<>> THEN <<>> ELSE FrameText(Head(fs)) \o StreamText(Tail(fs))

(* The bodies a response can carry *)
Streams == UNION { [1..n -> Frames] : n \in 0..MaxFrames }

(* String.prototype.startsWith and slice(start) *)
startsWith(s, prefix) ==
    Len(s) >= Len(prefix) /\ SubSeq(s, 1, Len(prefix)) = prefix

slice(s, start) == SubSeq(s, start + 1, Len(s))

RECURSIVE split(_, _)
(* String.prototype.split(separator), for a separator of one character *)
split(s, separator) ==
    IF \E n \in 1..Len(s) : s[n] = separator
    THEN LET first == CHOOSE n \in 1..Len(s) :
                          /\ s[n] = separator
                          /\ \A m \in 1..(n - 1) : s[m] # separator
         IN  <<SubSeq(s, 1, first - 1)>>
                 \o split(SubSeq(s, first + 1, Len(s)), separator)
    ELSE <<s>>

(* part_003: the setters of the search context *)
updateStatus(prev, status) == [prev EXCEPT !.status = status]

updateProgress(prev, progress) == [prev EXCEPT !.progress = progress]

setUserProfile(prev, profile) == [prev EXCEPT !.userProfile = Given(profile)]

addJob(prev, job) == [prev EXCEPT !.jobs = Append(prev.jobs, job)]

(* { ...map, [key]: value } *)
put(map, key, value) ==
    {entry \in map : entry.key # key} \cup {[key |-> key, value |-> value]}

addAnalysis(prev, analysis) ==
    [prev EXCEPT !.analyses = put(prev.analyses, Get(analysis, "jobId"),
                                  analysis)]

addCoverLetter(prev, coverLetter) ==
    [prev EXCEPT !.coverLetters =
                     put(prev.coverLetters, Get(coverLetter, "jobId"),
                         coverLetter)]

setError(prev, error) ==
    [prev EXCEPT !.error = error, !.status = Given("error")]

(* handleMessage: the session after the switch on message.event *)
handleMessage(prev, message) ==
    CASE message.event = phaseLabel ->
             updateProgress(updateStatus(prev, Get(message.data, "phase")),
                            Get(message.data, "progress"))
      [] message.event = profileLabel -> setUserProfile(prev, message.data)
      [] message.event = jobLabel -> addJob(prev, message.data)
      [] message.event = analysisLabel -> addAnalysis(prev, message.data)
      [] message.event = coverLetterLabel ->
             addCoverLetter(prev, message.data)
      [] message.event = completeLabel ->
             updateProgress(updateStatus(prev, Given("completed")),
                            Given(100))
      [] message.event = errorLabel ->
             updateStatus(setError(prev, Get(message.data, "message")),
                          Given("error"))
      [] OTHER -> prev

(* What the loop over the lines of one read carries from line to line *)
ReaderState == [currentEvent |-> currentEvent, session |-> session,
                handled |-> handled]

(* Faulty variant: the try/catch around JSON.parse reports the failure *)
processLine_ReportsBadJSON(reader, line) ==
    LET trimmed == trim(line)
    IN  IF startsWith(trimmed, eventPrefix)
        THEN [reader EXCEPT !.currentEvent = trim(slice(trimmed, 6))]
        ELSE IF startsWith(trimmed, dataPrefix)
        THEN LET dataStr == trim(slice(trimmed, 5))
                 message == [event |-> reader.currentEvent,
                             data |-> JSONparse(dataStr)]
             IN  IF dataStr # <<>> /\ isJSON(dataStr)
                 THEN [reader EXCEPT
                           !.session = handleMessage(reader.session, message),
                           !.handled = Append(reader.handled, message)]
                 ELSE [reader EXCEPT
                           !.session = setError(reader.session,
                                                Given("Unexpected token"))]
        ELSE reader

(* Faulty variant: a blank line sets the label back to message *)
processLine_ResetsAtBlankLine(reader, line) ==
    LET trimmed == trim(line)
    IN  IF startsWith(trimmed, eventPrefix)
        THEN [reader EXCEPT !.currentEvent = trim(slice(trimmed, 6))]
        ELSE IF startsWith(trimmed, dataPrefix)
        THEN LET dataStr == trim(slice(trimmed, 5))
                 message == [event |-> reader.currentEvent,
                             data |-> JSONparse(dataStr)]
             IN  IF dataStr # <<>> /\ isJSON(dataStr)
                 THEN [reader EXCEPT
                           !.session = handleMessage(reader.session, message),
                           !.handled = Append(reader.handled, message)]
                 ELSE reader
        ELSE IF trimmed = <<>>
        THEN [reader EXCEPT !.currentEvent = messageLabel]
        ELSE reader

(* The body of the loop over the lines of one read *)
processLine(reader, line) ==
    LET trimmed == trim(line)
    IN  IF startsWith(trimmed, eventPrefix)
        THEN [reader EXCEPT !.currentEvent = trim(slice(trimmed, 6))]
        ELSE IF startsWith(trimmed, dataPrefix)
        THEN LET dataStr == trim(slice(trimmed, 5))
                 message == [event |-> reader.currentEvent,
                             data |-> JSONparse(dataStr)]
             IN  IF dataStr # <<>> /\ isJSON(dataStr)
                 THEN [reader EXCEPT
                           !.session = handleMessage(reader.session, message),
                           !.handled = Append(reader.handled, message)]
                 ELSE reader
        ELSE reader

RECURSIVE processLines(_, _)
processLines(reader, lines) ==
    IF lines = <<>> THEN reader
    ELSE processLines(processLine(reader, Head(lines)), Tail(lines))

(* start() is accepted: the refs are set, the request is sent and the
   response arrives with a body *)
StartStream ==
    /\ clientPc = "idle"
    /\ ~isRunningRef
    /\ isRunningRef' = TRUE
    /\ abortControllerRef' = TRUE
    /\ aborted' = FALSE
    /\ currentEvent' = messageLabel
    /\ buffer' = <<>>
    /\ \E stream \in Streams :
         /\ frames' = stream
         /\ body' = StreamText(stream)
    /\ pos' = 0
    /\ clientPc' = "read"
    /\ UNCHANGED <<session, handled>>
    /\ UNCHANGED outsideClient

(* start() is accepted, but the response is not ok or has no body: the
   error is thrown to the catch, then the finally block runs *)
FetchFails ==
    /\ clientPc = "idle"
    /\ ~isRunningRef
    /\ session' = setError(session, Given("Pipeline request failed"))
    /\ isRunningRef' = FALSE
    /\ abortControllerRef' = FALSE
    /\ clientPc' = "returned"
    /\ UNCHANGED <<frames, body, pos, buffer, currentEvent, handled,
                   aborted>>
    /\ UNCHANGED outsideClient

(* The sizes of the chunk the next reader.read() can give: up to MaxChunk
   characters, or all that is left *)
ChunkSizes == {n \in 1..MaxChunk : pos + n <= Len(body)} \cup {Len(body) - pos}

(* Faulty variant: the incomplete line at the end of a chunk is not kept *)
Read_DropsPartialLine ==
    /\ clientPc = "read"
    /\ ~aborted
    /\ pos < Len(body)
    /\ \E size \in ChunkSizes :
         LET value == SubSeq(body, pos + 1, pos + size)
             lines == split(buffer \o value, "\n")
             reader == processLines(ReaderState,
                                    SubSeq(lines, 1, Len(lines) - 1))
         IN  /\ buffer' = <<>>
             /\ currentEvent' = reader.currentEvent
             /\ session' = reader.session
             /\ handled' = reader.handled
             /\ pos' = pos + size
    /\ UNCHANGED <<clientPc, frames, body, isRunningRef, abortControllerRef,
                   aborted>>
    /\ UNCHANGED outsideClient

(* One pass of the read loop: a chunk arrives, is decoded and appended to
   the buffer, the complete lines are handled and the rest is kept *)
Read ==
    /\ clientPc = "read"
    /\ ~aborted
    /\ pos < Len(body)
    /\ \E size \in ChunkSizes :
         LET value == SubSeq(body, pos + 1, pos + size)
             lines == split(buffer \o value, "\n")
             reader == processLines(ReaderState,
                                    SubSeq(lines, 1, Len(lines) - 1))
         IN  /\ buffer' = lines[Len(lines)]
             /\ currentEvent' = reader.currentEvent
             /\ session' = reader.session
             /\ handled' = reader.handled
             /\ pos' = pos + size
    /\ UNCHANGED <<clientPc, frames, body, isRunningRef, abortControllerRef,
                   aborted>>
    /\ UNCHANGED outsideClient

(* reader.read() reports done: the loop ends and the finally block runs *)
ReadDone ==
    /\ clientPc = "read"
    /\ ~aborted
    /\ pos = Len(body)
    /\ isRunningRef' = FALSE
    /\ abortControllerRef' = FALSE
    /\ clientPc' = "returned"
    /\ UNCHANGED <<frames, body, pos, buffer, currentEvent, session,
                   handled, aborted>>
    /\ UNCHANGED outsideClient

ClientNext ==
    \/ StartStream
    \/ FetchFails
    \/ Read
    \/ ReadDone

ClientSpec == Init /\ [][ClientNext]_vars

(* cancel(): while the controller is set its signal is aborted and the
   status becomes cancelled; without a controller nothing happens *)
cancel ==
    /\ abortControllerRef
    /\ aborted' = TRUE
    /\ session' = updateStatus(session, Given("cancelled"))
    /\ UNCHANGED <<clientPc, frames, body, pos, buffer, currentEvent, handled,
                   isRunningRef, abortControllerRef>>
    /\ UNCHANGED outsideClient

(* Faulty variant: the catch takes the AbortError for a real error *)
ReadAborted_ReportsError ==
    /\ clientPc = "read"
    /\ aborted
    /\ session' = setError(session, Given("The operation was aborted"))
    /\ isRunningRef' = FALSE
    /\ abortControllerRef' = FALSE
    /\ clientPc' = "returned"
    /\ UNCHANGED <<frames, body, pos, buffer, currentEvent, handled, aborted>>
    /\ UNCHANGED outsideClient

(* reader.read() rejects with the AbortError of the aborted signal: the
   catch sets the status to cancelled and returns, the finally block runs *)
ReadAborted ==
    /\ clientPc = "read"
    /\ aborted
    /\ session' = updateStatus(session, Given("cancelled"))
    /\ isRunningRef' = FALSE
    /\ abortControllerRef' = FALSE
    /\ clientPc' = "returned"
    /\ UNCHANGED <<frames, body, pos, buffer, currentEvent, handled, aborted>>
    /\ UNCHANGED outsideClient

ClientCancelNext ==
    \/ ClientNext
    \/ cancel
    \/ ReadAborted

ClientCancelSpec == Init /\ [][ClientCancelNext]_vars

(* Frames with and without an event: line of their own *)
BareFrames ==
    { [event |-> jobLabel, data |-> jobText],
      [event |-> completeLabel, data |-> completeText],
      [event |-> <<>>, data |-> jobText],
      [event |-> <<>>, data |-> phaseText] }

BareStreams == UNION { [1..n -> BareFrames] : n \in 0..MaxFrames }

(* start() is accepted and the response body carries data lines that have
   no event: line before them *)
StartBareStream ==
    /\ clientPc = "idle"
    /\ ~isRunningRef
    /\ isRunningRef' = TRUE
    /\ abortControllerRef' = TRUE
    /\ aborted' = FALSE
    /\ currentEvent' = messageLabel
    /\ buffer' = <<>>
    /\ \E stream \in BareStreams :
         /\ frames' = stream
         /\ body' = StreamText(stream)
    /\ pos' = 0
    /\ clientPc' = "read"
    /\ UNCHANGED <<session, handled>>
    /\ UNCHANGED outsideClient

BareNext ==
    \/ StartBareStream
    \/ Read
    \/ ReadDone

BareSpec == Init /\ [][BareNext]_vars

----------------------------------------------------------------------------
(* src/app/api/analyze-fit/route.ts: withRetry around a language model    *)
(* call.                                                                  *)

(* The operation is a language model call, as in analyzeJobFit and in the
   profile extraction: generateText resolves with a text, which is JSON or
   is not.  withRetry returns the text as it is; JSON.parse is applied by
   the caller, after withRetry has returned *)
GenerateTextReturns ==
    /\ retryPc = "operation"
    /\ invocations' = invocations + 1
    /\ onSuccess' = Append(onSuccess, attempt)
    /\ \E text \in {jobText, truncatedText} : outcome' = Returned(text)
    /\ retryPc' = "done"
    /\ UNCHANGED <<opts, attempt, lastError, onRetry, onExhausted>>
    /\ UNCHANGED <<abortedAfter, outsideRetry>>

ModelCallNext ==
    \/ GenerateTextReturns
    \/ OperationThrows
    \/ sleep

ModelCallSpec == RetryInit /\ [][ModelCallNext]_vars

----------------------------------------------------------------------------
(* src/unnamed/part_002: calculateProgress(phase, subProgress), the overall *)
(* progress of a run from the progress within a phase.                      *)

(* The divisor of subProgress: a sub-progress runs from 0 to 100 *)
FullProgress == 100

phaseRanges ==
    [idle |-> <<0, 0>>, parsing |-> <<0, 15>>, searching |-> <<15, 35>>,
     analyzing |-> <<35, 75>>, generating |-> <<75, 90>>,
     exporting |-> <<90, 100>>, completed |-> <<100, 100>>,
     cancelled |-> <<0, 0>>, error |-> <<0, 0>>]

PipelineStages == DOMAIN phaseRanges

(* Math.round(num / den) for non-negative num and positive den: the nearest
   integer, a half rounded up *)
RoundRatio(num, den) == (2 * num + den) \div (2 * den)

(* Faulty variant: the start of the range is not added *)
calculateProgress_NoStart(phase, subProgress) ==
    RoundRatio((phaseRanges[phase][2] - phaseRanges[phase][1]) * subProgress,
               FullProgress)

(* Math.round(start + (end - start) * (subProgress / 100)) *)
calculateProgress(phase, subProgress) ==
    RoundRatio(FullProgress * phaseRanges[phase][1]
                   + (phaseRanges[phase][2] - phaseRanges[phase][1])
                         * subProgress,
               FullProgress)

(* One call: any stage, any whole sub-progress *)
ProgressInit ==
    /\ OrchestratorIdle
    /\ RetryIdle
    /\ ClientIdle
    /\ WrapIdle
    /\ QualifyIdle
    /\ cpPhase \in PipelineStages
    /\ cpSubProgress \in 0..FullProgress
    /\ cpResult = NoValue

Calculate ==
    /\ cpResult = NoValue
    /\ cpResult' = Given(calculateProgress(cpPhase, cpSubProgress))
    /\ UNCHANGED <<cpPhase, cpSubProgress>>
    /\ UNCHANGED outsideProgress

ProgressNext == Calculate

ProgressSpec == ProgressInit /\ [][ProgressNext]_vars

----------------------------------------------------------------------------
(* src/hooks/use-pipeline-sse.ts: wrapError applied to a thrown value, and *)
(* applied again to what it returned.                                      *)

(* How many times wrapError is applied in a row *)
WrapCalls == 2

PipelinePhases ==
    {"idle", "parsing", "searching", "analyzing", "generating", "exporting",
     "completed", "error"}

(* new ParseError(message, code, recoverable) *)
ParseError(code, recoverable) ==
    [ScouterError(code, recoverable, "parsing") EXCEPT !.name = "ParseError"]

(* new SearchError(message, code, recoverable) *)
SearchError(code, recoverable) ==
    [ScouterError(code, recoverable, "searching")
         EXCEPT !.name = "SearchError"]

(* Values a catch block can be handed *)
ThrownValues ==
    { ParseError(e.code, e.recoverable) : e \in PDFParseErrors }
        \cup { SearchError("SEARCH_FAILED", TRUE),
               SearchError("RATE_LIMITED", TRUE),
               ScouterError("TIMEOUT", TRUE, "analyzing"),
               UntypedError, SyntaxError }

(* The defaultCode arguments looked at; NoValue is the omitted argument *)
DefaultCodes ==
    {NoValue, Given("UNKNOWN"), Given("PARSE_FAILED"),
     Given("SEARCH_FAILED")}

(* One thrown value, no call made yet *)
WrapInit ==
    /\ OrchestratorIdle
    /\ RetryIdle
    /\ ProgressIdle
    /\ ClientIdle
    /\ QualifyIdle
    /\ wrapInput \in ThrownValues
    /\ wrapArgs = <<>>
    /\ wrapped = <<>>

(* wrapError is called on the thrown value, or on what the call before
   returned *)
Wrap ==
    /\ Len(wrapped) < WrapCalls
    /\ \E phase \in PipelinePhases, defaultCode \in DefaultCodes :
         /\ wrapArgs' = Append(wrapArgs, [phase |-> phase,
                                          defaultCode |-> defaultCode])
         /\ wrapped' =
                Append(wrapped,
                       wrapError(IF wrapped = <<>>
                                 THEN wrapInput ELSE wrapped[Len(wrapped)],
                                 phase, defaultCode))
    /\ UNCHANGED wrapInput
    /\ UNCHANGED outsideWrap

WrapNext == Wrap

WrapSpec == WrapInit /\ [][WrapNext]_vars

----------------------------------------------------------------------------
(* src/app/api/analyze-fit/route.ts: the threshold of a request and the   *)
(* qualification test of one analysis.                                    *)

(* Values of searchConfig.minFitScore and of the options object a request
   can carry; NoValue is an absent field or an absent object *)
SearchConfigMinFitScores == {NoValue, Given(50), Given(80)}

RequestOptions ==
    {NoValue} \cup
        { Given([minFitScore |-> score]) : score \in MinFitScoreOptions }

(* The prompt of analyzeJobFit asks for an overallScore from 0 to 100 *)
MaxOverallScore == 100

(* const minFitScore = options?.minFitScore ?? 60 *)
minFitScoreOf(parsed) ==
    IF parsed.options = NoValue \/ parsed.options[1].minFitScore = NoValue
    THEN DefaultMinFitScore
    ELSE parsed.options[1].minFitScore[1]

(* One parsed request config and one analysis of a job *)
QualifyInit ==
    /\ OrchestratorIdle
    /\ RetryIdle
    /\ ProgressIdle
    /\ ClientIdle
    /\ WrapIdle
    /\ \E fromSearchConfig \in SearchConfigMinFitScores,
          fromOptions \in RequestOptions :
         parsedConfig = [searchConfig |-> [minFitScore |-> fromSearchConfig],
                         options |-> fromOptions]
    /\ overallScore \in 0..MaxOverallScore
    /\ qualified = NoValue

(* if (analysis.overallScore >= minFitScore) *)
Qualify ==
    /\ qualified = NoValue
    /\ qualified' = Given(qualifies([overallScore |-> overallScore],
                                    minFitScoreOf(parsedConfig)))
    /\ UNCHANGED <<parsedConfig, overallScore>>
    /\ UNCHANGED outsideQualify

QualifyNext == Qualify

QualifySpec == QualifyInit /\ [][QualifyNext]_vars

----------------------------------------------------------------------------
(* Reading the event stream *)

EventIndexes(type) == {n \in 1..Len(events) : events[n].type = type}
TerminalIndexes == EventIndexes("complete") \cup EventIndexes("error")
PhaseIndexes == EventIndexes("phase")
PhaseIndexesOf(phase) == {n \in PhaseIndexes : events[n].phase = phase}

PhaseRank(phase) ==
    CASE phase = "parsing" -> 1
      [] phase = "searching" -> 2
      [] phase = "analyzing" -> 3
      [] phase = "generating" -> 4

Max(S) == CHOOSE x \in S : \A y \in S : y <= x

(* The threshold in force: the request's minimum fit score, else 60 *)
RequestThreshold ==
    IF options.minFitScore = NoValue THEN 60 ELSE options.minFitScore[1]

----------------------------------------------------------------------------
(* C1: every run sends exactly one terminal event (complete or error):  *)
(* never two, nothing is sent after it, the function cannot stop before *)
(* sending one, and a finished run has sent exactly one.                *)
C1_ExactlyOneTerminalEvent ==
    /\ Cardinality(TerminalIndexes) <= 1
    /\ \A n \in TerminalIndexes : n = Len(events)
    /\ pc = "done" => Cardinality(TerminalIndexes) = 1
    /\ pc # "done" => ENABLED Next

C1_Witness ==
    /\ pc = "done"
    /\ events[Len(events)].type = "error"
    /\ PhaseIndexesOf("searching") # {}

(* C2: the progress of successive phase events never decreases over the *)
(* whole stream, and every value is an integer in [0,100].              *)
C2_ProgressNeverRegresses ==
    /\ \A n \in PhaseIndexes : events[n].progress \in 0..100
    /\ \A m, n \in PhaseIndexes :
         m < n => events[m].progress <= events[n].progress

(* C3: within one phase, the progress of its phase events never decreases *)
C3_ProgressMonotoneWithinPhase ==
    \A m, n \in PhaseIndexes :
        (m < n /\ events[m].phase = events[n].phase)
            => events[m].progress <= events[n].progress

(* two batches, the second one's job failing, progress 0, 75, 100 *)
C3_Witness ==
    /\ pc = "done"
    /\ Len(jobs) = 4
    /\ Len(analyses) = 3
    /\ \E n \in PhaseIndexesOf("analyzing") : events[n].progress = 75
    /\ \E n \in PhaseIndexesOf("generating") : events[n].progress = 50

(* C4: the last phase event before a complete event has progress 100 *)
C4_FinalProgressIs100 ==
    \A c \in EventIndexes("complete") :
        /\ \E n \in PhaseIndexes : n < c
        /\ events[Max({n \in PhaseIndexes : n < c})].progress = 100

(* C5: phase names only move forward: parsing, searching, analyzing, *)
(* generating                                                         *)
C5_PhasesMoveForward ==
    \A m, n \in PhaseIndexes :
        m < n => PhaseRank(events[m].phase) <= PhaseRank(events[n].phase)

C5_Witness ==
    /\ pc = "done"
    /\ \A phase \in {"parsing", "searching", "analyzing", "generating"} :
         Cardinality(PhaseIndexesOf(phase)) >= 2

(* C6: of the listings that reach deduplication and agree in company and *)
(* title after lower-casing, searchJobs returns exactly one, the first    *)
(* one in role/listing order.                                             *)
SameAfterLowerCase(x, y) ==
    /\ toLowerCase(x.company) = toLowerCase(y.company)
    /\ toLowerCase(x.title) = toLowerCase(y.title)

KeepsFirstOfEachGroup(aggregated, returned) ==
    \A m \in 1..Len(aggregated) :
        LET group == {n \in 1..Len(aggregated) :
                        SameAfterLowerCase(aggregated[m], aggregated[n])}
            first == CHOOSE n \in group : \A o \in group : n <= o
            kept == {x \in 1..Len(returned) :
                        SameAfterLowerCase(returned[x], aggregated[m])}
        IN Cardinality(group) >= 2 =>
              /\ Cardinality(kept) = 1
              /\ \A x \in kept : returned[x] = aggregated[first]

C6_DuplicateKeptOnceFirstWins ==
    [][(pc = "searchJobs" /\ pc' \in {"sendJob", "sendCompleteEmpty"}) =>
          \E ignoredSites \in IgnoredSiteSettings :
             /\ jobs' = searchJobsResult(allJobs, ignoredSites)
             /\ KeepsFirstOfEachGroup(
                    filterIgnoredSites(allJobs, ignoredSites), jobs')]_vars

(* C7: a coverLetter event for a job id comes after an analysis event *)
(* for the same id.                                                    *)
C7_AnalysisPrecedesCoverLetter ==
    \A n \in EventIndexes("coverLetter") :
        \E m \in EventIndexes("analysis") :
            m < n /\ events[m].analysis.jobId = events[n].jobId

C7_Witness ==
    /\ Cardinality(EventIndexes("coverLetter")) >= 2
    /\ Cardinality(EventIndexes("analysis")) < Cardinality(EventIndexes("job"))

(* C8: every coverLetter event is for a job whose emitted analysis scores *)
(* at least the threshold in force (the request's, else 60); no job whose *)
(* emitted analysis scores below it gets one.                             *)
C8_CoverLettersOnlyAboveThreshold ==
    /\ \A n \in EventIndexes("coverLetter") :
         \E m \in EventIndexes("analysis") :
            /\ events[m].analysis.jobId = events[n].jobId
            /\ events[m].analysis.overallScore >= RequestThreshold
    /\ \A m \in EventIndexes("analysis") :
         events[m].analysis.overallScore < RequestThreshold
            => \A n \in EventIndexes("coverLetter") :
                  events[n].jobId # events[m].analysis.jobId

(* threshold 70 from the request: a 65 stays without a letter, a 90 gets one *)
C8_Witness ==
    /\ pc = "done"
    /\ options.minFitScore = Given(70)
    /\ \E m \in EventIndexes("analysis") :
         /\ events[m].analysis.overallScore = 65
         /\ \A n \in EventIndexes("coverLetter") :
              events[n].jobId # events[m].analysis.jobId
    /\ \E m \in EventIndexes("analysis"), n \in EventIndexes("coverLetter") :
         /\ events[m].analysis.overallScore = 90
         /\ events[n].jobId = events[m].analysis.jobId

(* C9: the summary of the complete event counts the events of the stream *)
ScoresEmitted(low, high) ==
    {n \in EventIndexes("analysis") :
        /\ events[n].analysis.overallScore >= low
        /\ events[n].analysis.overallScore < high}

C9_SummaryCountsEvents ==
    \A c \in EventIndexes("complete") :
        /\ events[c].summary.totalJobs = Cardinality(EventIndexes("job"))
        /\ events[c].summary.analyzedJobs =
              Cardinality(EventIndexes("analysis"))
        /\ events[c].summary.highFitJobs = Cardinality(ScoresEmitted(80, 101))
        /\ events[c].summary.mediumFitJobs = Cardinality(ScoresEmitted(60, 80))
        /\ events[c].summary.coverLettersGenerated =
              Cardinality(EventIndexes("coverLetter"))

(* scores [90, 65, 40] under the default threshold give 3, 3, 1, 1, 2 *)
C9_Witness ==
    /\ options.minFitScore = NoValue
    /\ [n \in 1..Len(analyses) |-> analyses[n].overallScore] = <<90, 65, 40>>
    /\ \E c \in EventIndexes("complete") :
         events[c].summary =
            [totalJobs |-> 3, analyzedJobs |-> 3, highFitJobs |-> 1,
             mediumFitJobs |-> 1, coverLettersGenerated |-> 2]

(* C10: a search that returns no job is followed by the zero-summary *)
(* complete event right after the searching phase event and the close; *)
(* no analyzing or generating phase, analysis or coverLetter event.    *)
SearchReturned ==
    \/ pc \in {"sendJob", "sendSearchingPhase", "sendCompleteEmpty",
               "sendAnalyzing0", "awaitBatch", "emitBatch", "sendGenerating0",
               "generateCoverLetter", "sendCoverLetter",
               "sendGeneratingPhase", "sendComplete"}
    \/ /\ pc \in {"close", "done"}
       /\ events[Len(events)].type = "complete"

C10_ZeroJobsCompleteAtOnce ==
    (SearchReturned /\ Len(jobs) = 0) =>
        /\ pc \in {"sendCompleteEmpty", "close", "done"}
        /\ LET last == IF pc = "sendCompleteEmpty"
                       THEN Len(events) ELSE Len(events) - 1
           IN /\ events[last] = PhaseEvent("searching", 0)
              /\ pc # "sendCompleteEmpty" =>
                    events[Len(events)] = CompleteEvent(
                        [totalJobs |-> 0, analyzedJobs |-> 0,
                         highFitJobs |-> 0, mediumFitJobs |-> 0,
                         coverLettersGenerated |-> 0])
        /\ pc = "done" => closeCount = 1
        /\ PhaseIndexesOf("analyzing") = {}
        /\ PhaseIndexesOf("generating") = {}
        /\ EventIndexes("analysis") = {}
        /\ EventIndexes("coverLetter") = {}

C10_Witness ==
    /\ pc = "done"
    /\ Len(jobs) = 0
    /\ events[Len(events)].type = "complete"

----------------------------------------------------------------------------
(* Reading one withRetry call *)

HasReturned == outcome # NoValue /\ outcome[1].kind = "returned"
HasThrown == outcome # NoValue /\ outcome[1].kind = "thrown"
LastErrorRetryable ==
    lastError # NoValue /\ isRetryable(lastError[1], opts.retryablePatterns)

(* C11: when the operation fails n times with retryable errors and then   *)
(* succeeds (n <= maxRetries), withRetry returns the operation's value,   *)
(* has invoked the operation n+1 times, has called onRetry n times with   *)
(* the attempt numbers 1..n, and has called onSuccess once, with n.       *)
(* Before the operation succeeds onSuccess is not called.                 *)
C11_SuccessAfterRetries ==
    LET n == invocations - 1
    IN  /\ HasReturned =>
              /\ n <= opts.maxRetries
              /\ outcome[1].value = "result"
              /\ Len(onRetry) = n
              /\ \A m \in 1..n : onRetry[m].attempt = m
              /\ onSuccess = <<n>>
              /\ onExhausted = <<>>
        /\ ~HasReturned => onSuccess = <<>>

C11_Witness ==
    /\ HasReturned
    /\ invocations = 3
    /\ Len(onRetry) = 2
    /\ onSuccess = <<2>>

(* C12: once the operation has failed with an error that matches no       *)
(* retryable pattern, withRetry is over: that error is what it threw, no  *)
(* further attempt is made, onExhausted and onSuccess were not called,   *)
(* and when it was the first failure the operation ran once and onRetry  *)
(* was not called either.                                                 *)
C12_NonRetryableThrownAtOnce ==
    (lastError # NoValue /\ ~LastErrorRetryable) =>
        /\ retryPc = "done"
        /\ outcome = Thrown(lastError[1])
        /\ onSuccess = <<>>
        /\ onExhausted = <<>>
        /\ invocations = Len(onRetry) + 1
        /\ attempt = 0 => (invocations = 1 /\ onRetry = <<>>)

C12_Witness ==
    /\ lastError = Given(AuthenticationFailed)
    /\ invocations = 1
    /\ outcome = Thrown(AuthenticationFailed)
    /\ retryPc = "done"

(* C13: the operation is never invoked more than maxRetries + 1 times     *)
(* (fast 3, standard 4, aggressive 6 invocations); when every attempt     *)
(* failed with a retryable error, onExhausted is called exactly once,     *)
(* with the number of attempts made and the last error, and that last     *)
(* error is what withRetry throws.                                        *)
C13_ExhaustedAfterLimit ==
    /\ RetryPresets.fast.maxRetries = 2
    /\ RetryPresets.standard.maxRetries = 3
    /\ RetryPresets.aggressive.maxRetries = 5
    /\ invocations <= opts.maxRetries + 1
    /\ Len(onExhausted) <= 1
    /\ (HasThrown /\ LastErrorRetryable) =>
          /\ invocations = opts.maxRetries + 1
          /\ onExhausted = <<[attempts |-> invocations,
                               lastError |-> lastError[1]]>>
          /\ outcome = Thrown(lastError[1])
          /\ Len(onRetry) = opts.maxRetries
          /\ onSuccess = <<>>
    /\ onExhausted # <<>> => (HasThrown /\ LastErrorRetryable)

C13_Witness ==
    /\ HasThrown
    /\ opts.maxRetries = 5
    /\ invocations = 6
    /\ onExhausted = <<[attempts |-> 6, lastError |-> ServiceUnavailable]>>
    /\ onRetry[5].error = RateLimitExceeded

(* C14: every delay handed to onRetry (and slept) is a non-negative       *)
(* integer not above the policy's maxDelay, with or without jitter.       *)
C14_DelayWithinCap ==
    \A m \in 1..Len(onRetry) :
        /\ onRetry[m].delay \in Nat
        /\ onRetry[m].delay <= opts.maxDelay

----------------------------------------------------------------------------
(* Reading the end of a run *)

RunOver == pc \in {"close", "done"}
LastEvent == events[Len(events)]
ParseFailureCodes == {"PARSE_FAILED", "INVALID_PDF", "EMPTY_CONTENT"}
RequestRead == request # NoValue
RequestIncomplete ==
    RequestRead /\ (~request[1].resumeFile \/ ~request[1].configJson)
UntypedEscaped ==
    thrown # NoValue /\ thrown[1] \in {UntypedError, SyntaxError}
EmptyTargetRoles ==
    RequestRead /\ request[1].resumeFile /\ request[1].configJson
        /\ hasSearchConfig /\ request[1].targetRoles = 0

(* C15: when the profile text the model returned is not valid JSON, the  *)
(* run ends with a single error event of a parse-failure kind, phase     *)
(* parsing, recoverable, and no profile event or searching phase.        *)
C15_MalformedProfileIsParseError ==
    (thrown = Given(SyntaxError) /\ RunOver) =>
        /\ Cardinality(EventIndexes("error")) = 1
        /\ LastEvent.type = "error"
        /\ LastEvent.code \in ParseFailureCodes
        /\ LastEvent.phase = "parsing"
        /\ LastEvent.recoverable
        /\ EventIndexes("profile") = {}
        /\ PhaseIndexesOf("searching") = {}

(* C16: when an untyped exception escaped the stages, the error event    *)
(* has code UNKNOWN, is not recoverable, and carries the phase of the    *)
(* last phase event sent before the exception escaped.                   *)
C16_UnknownErrorCarriesActivePhase ==
    (UntypedEscaped /\ RunOver /\ PhaseIndexes # {}) =>
        /\ LastEvent.type = "error"
        /\ LastEvent.code = "UNKNOWN"
        /\ ~LastEvent.recoverable
        /\ LastEvent.phase = events[Max(PhaseIndexes)].phase

(* C17: a request without the resume or without the config gets exactly  *)
(* one event, error VALIDATION_FAILED / idle / not recoverable, the      *)
(* stream is closed, and nothing else is sent or called.                 *)
C17_IncompleteRequestRejected ==
    RequestIncomplete =>
        /\ events \in {<<>>, <<ErrorEvent("VALIDATION_FAILED", "idle",
                                          FALSE)>>}
        /\ calls = {"formData"}
        /\ pc \in {"sendValidationError", "close", "done"}
        /\ RunOver => events # <<>>
        /\ pc = "done" => closeCount = 1

C17_Witness ==
    /\ RequestIncomplete
    /\ ~request[1].configJson
    /\ pc = "done"
    /\ closeCount = 1
    /\ events = <<ErrorEvent("VALIDATION_FAILED", "idle", FALSE)>>

(* C18: a request whose search configuration has an empty targetRoles    *)
(* list ends with error VALIDATION_FAILED, never with complete, and no   *)
(* parsing or searching work is started.                                 *)
C18_EmptyTargetRolesRejected ==
    EmptyTargetRoles =>
        /\ EventIndexes("complete") = {}
        /\ PhaseIndexes = {}
        /\ calls \subseteq {"formData"}
        /\ RunOver => (LastEvent.type = "error"
                         /\ LastEvent.code = "VALIDATION_FAILED")

(* C19: close() is called at most once, only after the terminal event   *)
(* has been sent, and exactly once by the time the run is over, on      *)
(* every exit path.                                                      *)
C19_ClosedOnceAfterTerminal ==
    /\ closeCount <= 1
    /\ closeCount = 1 => (events # <<>> /\ Len(events) \in TerminalIndexes)
    /\ pc = "done" => closeCount = 1
    /\ pc = "close" => (closeCount = 0 /\ events # <<>>
                           /\ Len(events) \in TerminalIndexes)

C19_Witness ==
    /\ pc = "done"
    /\ closeCount = 1
    /\ LastEvent.type = "complete"
    /\ EventIndexes("coverLetter") # {}

(* C20: the heartbeat is started before the request body is read, before *)
(* any phase event and before any outside call.                          *)
C20_HeartbeatStartedFirst ==
    (calls # {} \/ events # <<>> \/ pc # "start") => hbStarted

C20_Witness ==
    /\ hbStarted
    /\ {"formData", "extractText", "generateText", "fetchJobs"}
           \subseteq calls
    /\ PhaseIndexesOf("analyzing") # {}

(* C21: once the client's cancellation signal has fired, no further phase,
   job, analysis, coverLetter, complete or error event is emitted: whatever
   the orchestrator hands to the stream afterwards, the result of a call
   that finished after the cancellation included, is dropped, not sent *)
C21_NothingEmittedAfterCancel ==
    [][abortedAt # NoValue => Emitted' = Emitted]_vars

(* The orchestrator went on after the signal fired and handed the stream
   events of calls that finished later; none of them was emitted *)
C21_Witness ==
    /\ abortedAt # NoValue
    /\ Len(events) > abortedAt[1]
    /\ \E n \in (abortedAt[1] + 1)..Len(events) : events[n].type = "analysis"
    /\ Len(Emitted) = abortedAt[1]

(* The place of a job in the listing the search returned *)
JobPosition(jobId) == CHOOSE n \in 1..Len(jobs) : jobs[n].id = jobId

(* C22: the analysis events are emitted in listing order, whatever the order
   in which the calls of a batch finished; and while any call of the current
   batch is unfinished no analysis event of that batch has been sent *)
C22_BatchEmittedInListingOrder ==
    /\ \A m, n \in EventIndexes("analysis") :
         m < n => JobPosition(events[m].analysis.jobId)
                      < JobPosition(events[n].analysis.jobId)
    /\ pc = "awaitBatch" =>
         \A n \in EventIndexes("analysis") :
             JobPosition(events[n].analysis.jobId) <= i

(* The last call of a batch of three has delivered its analysis while the
   first is still running, and nothing of the batch has been sent *)
C22_Witness ==
    /\ pc = "awaitBatch"
    /\ Len(batchResults) = batchSize
    /\ batchResults[1] = Pending
    /\ batchResults[batchSize] \notin {Pending, Null}
    /\ EventIndexes("analysis") = {}

AnalysisEventIds ==
    {events[n].analysis.jobId : n \in EventIndexes("analysis")}

(* The ids of the first `count` jobs of the listing *)
JobIdsUpTo(count) == {jobs[n].id : n \in 1..Min(count, Len(jobs))}

(* C23: a failed analysis of one job aborts neither its batch nor the run:
   no error results, the failed job gets no analysis event, every other job
   of a finished batch gets one, and the run ends with complete whose
   analyzedJobs is totalJobs less the number of failed jobs *)
C23_FailedAnalysisSkipsOnlyItsJob ==
    failedJobs # {} =>
        /\ thrown = NoValue
        /\ EventIndexes("error") = {}
        /\ AnalysisEventIds \cap failedJobs = {}
        /\ (pc = "emitBatch" /\ k > Len(batchResults)) =>
               JobIdsUpTo(i + batchSize) \ failedJobs \subseteq AnalysisEventIds
        /\ RunOver =>
               /\ LastEvent.type = "complete"
               /\ AnalysisEventIds = JobIdsUpTo(Len(jobs)) \ failedJobs
               /\ LastEvent.summary.analyzedJobs =
                     LastEvent.summary.totalJobs - Cardinality(failedJobs)

(* The first job of a batch failed, the next one was analysed and emitted,
   and the run completed one analysis short *)
C23_Witness ==
    /\ RunOver
    /\ Len(jobs) >= 2
    /\ failedJobs = {jobs[1].id}
    /\ jobs[2].id \in AnalysisEventIds
    /\ LastEvent.type = "complete"
    /\ LastEvent.summary.analyzedJobs = Len(jobs) - 1

RECURSIVE Flatten(_)
(* The listings of the roles whose search succeeded, in role order *)
Flatten(results) ==
    IF results = <<>>
    THEN <<>>
    ELSE (IF Head(results) = NoValue THEN <<>> ELSE Head(results)[1])
             \o Flatten(Tail(results))

RoleFailed == \E n \in 1..Len(roleResults) : roleResults[n] = NoValue

(* C24: in searchJobs a role whose search failed does not abort the others:
   nothing is thrown, every target role is searched, and the list returned
   is the filtered, deduplicated listings of the roles that succeeded *)
C24_FailedRoleSkipped ==
    RoleFailed =>
        /\ thrown = NoValue
        /\ pc # "searchJobs" =>
               /\ Len(roleResults) = request[1].targetRoles
               /\ \E ignoredSites \in IgnoredSiteSettings :
                     jobs = searchJobsResult(Flatten(roleResults),
                                             ignoredSites)

(* The first role failed, the second found listings, and the search
   returned the second role's listings *)
C24_Witness ==
    /\ pc = "sendJob"
    /\ Len(roleResults) = 2
    /\ roleResults[1] = NoValue
    /\ roleResults[2] # NoValue
    /\ Len(jobs) > 0

RECURSIVE FramesHandled(_, _)
(* How many leading frames have their data line among the first `count`
   characters of the body *)
FramesHandled(fs, count) ==
    IF fs = <<>> \/ count < Len(FrameText(Head(fs))) - 1
    THEN 0
    ELSE 1 + FramesHandled(Tail(fs), count - Len(FrameText(Head(fs))))

(* A frame that is no heartbeat and whose payload is JSON *)
Significant(frame) == frame.event # heartbeatLabel /\ isJSON(frame.data)

RECURSIVE Applied(_, _)
(* The session after the given frames have been applied one by one *)
Applied(prev, fs) ==
    IF fs = <<>> THEN prev
    ELSE Applied(handleMessage(prev, [event |-> Head(fs).event,
                                      data |-> JSONparse(Head(fs).data)]),
                 Tail(fs))

BodyRead == clientPc = "read" \/ (clientPc = "returned" /\ frames # <<>>)

(* C25: a heartbeat event, wherever it comes, and a data line whose payload
   is no JSON leave the session as it was, and the events after them are
   still parsed and applied: the session is the one that results from
   applying the other frames received so far, in order *)
C25_HeartbeatAndBadPayloadIgnored ==
    BodyRead =>
        session = Applied(createInitialSession,
                          SelectSeq(SubSeq(frames, 1,
                                           FramesHandled(frames, pos)),
                                    Significant))

(* A truncated payload and a heartbeat were read, and the job event after
   them was added to the session *)
C25_Witness ==
    /\ clientPc = "returned"
    /\ Len(frames) = 3
    /\ frames[1].data = truncatedText
    /\ frames[2].event = heartbeatLabel
    /\ frames[3] = [event |-> jobLabel, data |-> jobText]
    /\ session = addJob(createInitialSession, [id |-> 1])

(* C26: every phase event carries a progress inside the overall range of
   its phase: parsing 0 to 15, searching 15 to 35, analyzing 35 to 75,
   generating 75 to 90 *)
C26_PhaseProgressInPhaseRange ==
    \A n \in PhaseIndexes :
        /\ events[n].progress >= phaseRanges[events[n].phase][1]
        /\ events[n].progress <= phaseRanges[events[n].phase][2]

(* The stage after a stage, for the stages a run moves forward through *)
NextStage ==
    [parsing |-> "searching", searching |-> "analyzing",
     analyzing |-> "generating", generating |-> "exporting"]

(* C27: for every stage and every whole subProgress from 0 to 100,
   calculateProgress gives an integer inside the stage's range, the start
   of the range at 0 and its end at 100, never less than for the
   sub-progress before, and the end of each forward stage is the start of
   the next one *)
C27_CalculateProgressMapsOntoRange ==
    cpResult # NoValue =>
        /\ cpResult[1] \in phaseRanges[cpPhase][1]..phaseRanges[cpPhase][2]
        /\ cpSubProgress = 0 => cpResult[1] = phaseRanges[cpPhase][1]
        /\ cpSubProgress = FullProgress =>
               cpResult[1] = phaseRanges[cpPhase][2]
        /\ cpSubProgress > 0 =>
               calculateProgress(cpPhase, cpSubProgress - 1) <= cpResult[1]
        /\ (cpSubProgress = FullProgress /\ cpPhase \in DOMAIN NextStage) =>
               cpResult[1] = calculateProgress(NextStage[cpPhase], 0)

(* Half-way through analyzing is 55 overall *)
C27_Witness ==
    /\ cpPhase = "analyzing"
    /\ cpSubProgress = 50
    /\ cpResult = Given(55)

(* Some pattern is a substring of the error's code, status or message when
   the letter case is ignored *)
MatchesIgnoringCase(error, patterns) ==
    \E n \in 1..Len(patterns) :
        \/ includes(toLowerCase(extractErrorInfo(error).code),
                    toLowerCase(patterns[n]))
        \/ includes(toLowerCase(extractErrorInfo(error).status),
                    toLowerCase(patterns[n]))
        \/ includes(toLowerCase(extractErrorInfo(error).message),
                    toLowerCase(patterns[n]))

(* C28: isRetryable matches each pattern as a case-insensitive substring of
   the error's code, status and message: an error whose code contains a
   pattern in another letter case is classified retryable, so withRetry
   does not throw it after the first invocation *)
C28_RetryableIgnoringCase ==
    (lastError # NoValue
        /\ MatchesIgnoringCase(lastError[1], opts.retryablePatterns)) =>
            /\ LastErrorRetryable
            /\ (HasThrown /\ opts.maxRetries > 0) => invocations > 1

(* extractTextFromPDF threw one of its typed errors *)
ExtractorFailed == thrown # NoValue /\ thrown[1] \in PDFParseErrors

(* C29: when the extraction of the PDF's text fails with a typed extractor
   error, exactly one error event is emitted, with the code and the
   recoverable flag of that error and phase parsing, and the stream is
   closed; the language model is not called, and no profile event and no
   searching phase follow *)
C29_ExtractorErrorEndsRun ==
    ExtractorFailed =>
        /\ pc \in {"sendPDFError", "close", "done"}
        /\ "generateText" \notin calls
        /\ EventIndexes("profile") = {}
        /\ PhaseIndexesOf("searching") = {}
        /\ EventIndexes("complete") = {}
        /\ RunOver =>
               /\ Cardinality(EventIndexes("error")) = 1
               /\ LastEvent = ErrorEvent(thrown[1].code, "parsing",
                                         thrown[1].recoverable)
        /\ pc = "done" => closeCount = 1

(* A PDF without extractable text: the run ended with the recoverable
   EMPTY_CONTENT error and the stream is closed *)
C29_Witness ==
    /\ pc = "done"
    /\ thrown = Given([code |-> "EMPTY_CONTENT", recoverable |-> TRUE])
    /\ LastEvent = ErrorEvent("EMPTY_CONTENT", "parsing", TRUE)
    /\ closeCount = 1

(* The slots of the current batch whose call has not finished *)
InFlight == {slot \in 1..Len(batchResults) : batchResults[slot] = Pending}

(* C30: at most 3 job-analysis calls are in flight at any moment: the jobs
   are taken in consecutive batches of at most 3 in listing order, and the
   calls of a batch are only issued when every call of the batches before
   has finished and their analysis events and phase events have been sent *)
C30_AtMostOneBatchInFlight ==
    /\ Cardinality(InFlight) <= batchSize
    /\ InFlight # {} =>
         /\ pc = "awaitBatch"
         /\ i % batchSize = 0
         /\ Len(batchResults) = Min(batchSize, Len(jobs) - i)
         /\ JobIdsUpTo(i) \subseteq AnalysisEventIds \cup failedJobs
         /\ Cardinality(PhaseIndexesOf("analyzing")) = i \div batchSize + 1
         /\ LastEvent.type = "phase"

(* The first batch of three is done and sent, and the one call of the
   second batch is in flight *)
C30_Witness ==
    /\ pc = "awaitBatch"
    /\ Len(jobs) = batchSize + 1
    /\ i = batchSize
    /\ InFlight = {1}
    /\ Cardinality(EventIndexes("analysis")) + Cardinality(failedJobs)
           = batchSize

----------------------------------------------------------------------------
(* C31: once the cancellation signal has fired, withRetry invokes the
   operation no more: the invocation in flight when it fired may fail, but
   no invocation follows it *)
C31_NoInvocationAfterCancel ==
    abortedAfter # NoValue => invocations <= abortedAfter[1]

----------------------------------------------------------------------------
(* The message the server framed: the frame's label and parsed payload *)
MessageOf(frame) == [event |-> frame.event, data |-> JSONparse(frame.data)]

HasJSON(frame) == isJSON(frame.data)

RECURSIVE MessagesOf(_)
MessagesOf(fs) ==
    IF fs = <<>> THEN <<>> ELSE <<MessageOf(Head(fs))>> \o MessagesOf(Tail(fs))

(* C32: whatever the chunks the body arrives in, the messages handed to
   handleMessage are the framed events whose lines have been received, in
   order, each under its own label and with its own payload; once the body
   is read they are all the framed events with a JSON payload *)
C32_HandledWhateverTheChunks ==
    BodyRead =>
        handled = MessagesOf(SelectSeq(SubSeq(frames, 1,
                                              FramesHandled(frames, pos)),
                                       HasJSON))

(* A chunk ended in the middle of the second frame's JSON payload, after
   the first frame's message was handled *)
C32_Witness ==
    /\ clientPc = "read"
    /\ Len(frames) = 2
    /\ Len(handled) = 1
    /\ startsWith(buffer, dataPrefix)
    /\ Len(buffer) > Len(dataPrefix) + 2
    /\ frames[2].data = phaseText

----------------------------------------------------------------------------
(* C33: a language model call whose text is no valid JSON is issued again
   under its retry policy: withRetry hands such a text to its caller only
   when the policy's invocations are used up *)
C33_MalformedOutputIssuedAgain ==
    (HasReturned /\ ~isJSON(outcome[1].value)) =>
        invocations = opts.maxRetries + 1

----------------------------------------------------------------------------
(* C34: wrapError hands a typed error back with its own code, recoverable
   flag and phase, whatever the phase and default code of the call; any
   other value comes back as a typed error with the default code of the
   call (UNKNOWN when none is given), not recoverable, in the phase of the
   call; wrapping the result again changes nothing *)
C34_WrapErrorIdempotent ==
    \A n \in 1..Len(wrapped) :
        /\ wrapped[n].typed
        /\ wrapInput.typed =>
              /\ wrapped[n].code = wrapInput.code
              /\ wrapped[n].recoverable = wrapInput.recoverable
              /\ wrapped[n].phase = wrapInput.phase
        /\ ~wrapInput.typed =>
              /\ wrapped[n].code = IF wrapArgs[1].defaultCode = NoValue
                                   THEN "UNKNOWN"
                                   ELSE wrapArgs[1].defaultCode[1]
              /\ ~wrapped[n].recoverable
              /\ wrapped[n].phase = wrapArgs[1].phase
        /\ wrapped[n] = wrapped[1]

(* A recoverable parse error went through wrapError twice, with another
   phase and another default code each time, and kept its own *)
C34_Witness ==
    /\ wrapInput = ParseError("EMPTY_CONTENT", TRUE)
    /\ Len(wrapped) = 2
    /\ wrapArgs[1] = [phase |-> "error", defaultCode |-> NoValue]
    /\ wrapArgs[2] = [phase |-> "searching",
                      defaultCode |-> Given("SEARCH_FAILED")]
    /\ wrapped[2].code = "EMPTY_CONTENT"
    /\ wrapped[2].phase = "parsing"

----------------------------------------------------------------------------
(* C35: when the search configuration of the request carries a minimum fit
   score, a job qualifies exactly when its analysis scores at least that;
   60 is the threshold only when the search configuration gives none *)
C35_ThresholdFromSearchConfig ==
    qualified # NoValue =>
        LET fromSearchConfig == parsedConfig.searchConfig.minFitScore
            threshold == IF fromSearchConfig = NoValue
                         THEN 60 ELSE fromSearchConfig[1]
        IN  qualified[1] <=> overallScore >= threshold

----------------------------------------------------------------------------
(* Same company and same title after lower-casing and trimming *)
SameCompanyAndTitle(x, y) ==
    /\ trim(toLowerCase(x.company)) = trim(toLowerCase(y.company))
    /\ trim(toLowerCase(x.title)) = trim(toLowerCase(y.title))

DropsOnlyRepeats(aggregated, returned) ==
    \A n \in 1..Len(aggregated) :
        (\A m \in 1..(n - 1) :
            ~SameCompanyAndTitle(aggregated[m], aggregated[n]))
        => \E x \in 1..Len(returned) : returned[x] = aggregated[n]

(* C36: of the listings that reach deduplication, searchJobs drops one only
   if an earlier one has the same company and the same title after
   lower-casing and trimming; a listing that differs from every earlier one
   in company or in title is returned *)
C36_DroppedOnlyIfSameCompanyAndTitle ==
    [][(pc = "searchJobs" /\ pc' \in {"sendJob", "sendCompleteEmpty"}) =>
          \E ignoredSites \in IgnoredSiteSettings :
             /\ jobs' = searchJobsResult(allJobs, ignoredSites)
             /\ DropsOnlyRepeats(
                    filterIgnoredSites(allJobs, ignoredSites), jobs')]_vars

----------------------------------------------------------------------------
(* The fetchJobs errors that are no rate limit error *)
NoRateLimitErrors == FetchJobsErrors \ {RateLimitExceeded}

(* C37: under the rateLimited policy a role's fetch is invoked at most 4
   times; only the rate limit error is retried, and it is thrown only after
   the 4th invocation; an authentication error, a missing key and a server
   error are thrown by the invocation that met them, which is the first
   one unless rate limit errors came before *)
C37_OnlyRateLimitRetried ==
    /\ invocations <= 4
    /\ \A m \in 1..Len(onRetry) : onRetry[m].error = RateLimitExceeded
    /\ invocations \in {Len(onRetry), Len(onRetry) + 1}
    /\ (lastError # NoValue /\ lastError[1] \in NoRateLimitErrors) =>
          /\ outcome = Thrown(lastError[1])
          /\ onExhausted = <<>>
    /\ (HasThrown /\ lastError = Given(RateLimitExceeded)) =>
          invocations = 4

(* The fetch met a server error at its first invocation and was not
   invoked again *)
C37_Witness ==
    /\ opts = mergeConfig(RetryPresets.rateLimited)
    /\ outcome = Thrown(InternalServerError)
    /\ invocations = 1
    /\ onRetry = <<>>

----------------------------------------------------------------------------
(* The place of an event's class in the order of the classes; 0 for the
   events of no class (phase, complete, error) *)
ClassRank(event) ==
    CASE event.type = "profile" -> 1
      [] event.type = "job" -> 2
      [] event.type = "analysis" -> 3
      [] event.type = "coverLetter" -> 4
      [] OTHER -> 0

OfSomeClass(event) == ClassRank(event) > 0

IsCoverLetter(event) == event.type = "coverLetter"

(* C38: the profile, job, analysis and coverLetter events of a run come in
   this order of their classes, with at most one profile event, and the
   coverLetter events come in the order of the analysis events of their
   jobs *)
C38_EventClassesInOrder ==
    LET classed == SelectSeq(events, OfSomeClass)
        letters == SelectSeq(events, IsCoverLetter)
    IN  /\ Cardinality(EventIndexes("profile")) <= 1
        /\ \A n \in 1..(Len(classed) - 1) :
              ClassRank(classed[n]) <= ClassRank(classed[n + 1])
        /\ \A n \in 1..(Len(letters) - 1) :
              \E a \in EventIndexes("analysis"),
                 b \in EventIndexes("analysis") :
                 /\ a < b
                 /\ events[a].analysis.jobId = letters[n].jobId
                 /\ events[b].analysis.jobId = letters[n + 1].jobId

(* A finished run sent the profile, three jobs, their analyses and two
   cover letters *)
C38_Witness ==
    /\ pc = "done"
    /\ Cardinality(EventIndexes("profile")) = 1
    /\ Cardinality(EventIndexes("job")) = 3
    /\ Cardinality(EventIndexes("analysis")) = 3
    /\ Cardinality(EventIndexes("coverLetter")) = 2

----------------------------------------------------------------------------
(* C39: once cancel() has aborted the signal of a run, no message is
   handed to handleMessage any more and the session changes in nothing but
   its status, which is cancelled and stays so; and whenever start() has
   returned, isRunningRef is false and the abort controller is cleared *)
C39_CancelStopsTheRun ==
    [][/\ aborted =>
             /\ handled' = handled
             /\ session' = updateStatus(session, Given("cancelled"))
             /\ session.status = Given("cancelled")
       /\ clientPc' = "returned" =>
             /\ ~isRunningRef'
             /\ ~abortControllerRef']_vars

(* start() returned after a cancel() that came when one of three framed
   events had been handled *)
C39_Witness ==
    /\ clientPc = "returned"
    /\ aborted
    /\ Len(frames) = 3
    /\ \A n \in 1..3 : isJSON(frames[n].data)
    /\ Len(handled) = 1
    /\ session.status = Given("cancelled")
    /\ ~isRunningRef
    /\ ~abortControllerRef

----------------------------------------------------------------------------
RECURSIVE LabelAt(_, _)
(* The label of the last event: line up to frame n of the body, message
   when there is none *)
LabelAt(fs, n) ==
    IF n = 0 THEN messageLabel
    ELSE IF fs[n].event # <<>> THEN fs[n].event
    ELSE LabelAt(fs, n - 1)

(* C40: every data line is handed to handleMessage under the label of the
   last event: line before it in the stream, message when there is none:
   a data line with no event: line of its own goes under the label of the
   frame before it, the blank line between them changes nothing *)
C40_LabelKeptAcrossFrames ==
    BodyRead =>
        handled = [n \in 1..FramesHandled(frames, pos) |->
                      [event |-> LabelAt(frames, n),
                       data |-> JSONparse(frames[n].data)]]

(* A data line before any event: line went under message, and one after a
   job frame was added as a second job *)
C40_Witness ==
    /\ clientPc = "returned"
    /\ Len(frames) = 3
    /\ frames[1].event = <<>>
    /\ frames[2].event = jobLabel
    /\ frames[3] = [event |-> <<>>, data |-> jobText]
    /\ handled[1].event = messageLabel
    /\ handled[3].event = jobLabel
    /\ Len(session.jobs) = 2

====
